---- MODULE Spec2Model ----
(***************************************************************************)
(* Model of the TavernAI order-line classification engine                  *)
(* (backend/app/nlp.py) and of the callers that feed it (backend/app/      *)
(* main.py, backend/app/api/menu_router.py).                               *)
(*                                                                         *)
(* Text is a sequence of characters.  A character is a record              *)
(*   [k, b, up, acc]                                                       *)
(* k   : "gr" Greek letter, "lat" Latin letter, "dig" decimal digit,       *)
(*       "pun" punctuation, "sp" whitespace, "mark" combining mark         *)
(* b   : the base symbol.  Greek letters are named by a Latin              *)
(*       transliteration: a=alpha v=beta g=gamma d=delta e=epsilon z=zeta  *)
(*       h=eta q=theta i=iota k=kappa l=lambda m=mu n=nu x=xi o=omicron    *)
(*       p=pi r=rho s=sigma sf=final sigma t=tau y=upsilon f=phi c=chi     *)
(*       j=psi w=omega.  Whitespace is " ", "NL" (line feed) or "TAB".     *)
(* up  : TRUE for an upper-case letter                                     *)
(* acc : "none", "tonos" (precomposed acute) or "dial" (precomposed        *)
(*       diaeresis); a combining mark on its own has k = "mark" and b the  *)
(*       name of the mark.                                                 *)
(***************************************************************************)
EXTENDS Integers, Sequences, FiniteSets, TLC

VARIABLES
    norm_in,      \* argument of the normalizer call under test
    norm_out,     \* _normalize_text_basic(norm_in)
    norm_twice,   \* _normalize_text_basic(norm_out)
    norm_pc,      \* "start" | "once" | "twice"
    norm_match,   \* main._normalize_text_for_match(norm_in), once it was called
    MENU_ITEMS,   \* nlp.MENU_ITEMS: normalized name -> {id, name, price, category}
    GRILL_SET,    \* nlp.GRILL_SET
    KITCHEN_SET,  \* nlp.KITCHEN_SET
    DRINK_SET,    \* nlp.DRINK_SET
    ln_text,      \* the text handed to the parser and to classify_order
    ln_menu,      \* the menu.json the module was imported with
    ln_pc,        \* "idle" | "start" | "parsed" | "classified"
    ln_parse,     \* _parse_quantity_and_units(ln_text)
    ln_cls,       \* classify_order(ln_text)
    mt_item,      \* item text handed to the matcher
    mt_unit,      \* unit handed to the matcher
    mt_qty,       \* quantity handed to the matcher
    mt_pc,        \* "idle" | "start" | "matched"
    mt_res,       \* threshold -> result of the matcher run with that threshold
    menu_json,    \* backend/data/menu.json as it is on disk
    db_menu,      \* json_blob of the latest MenuVersion row, if any
    loaded_menu,  \* the snapshot the module globals were last built from
    samples,      \* NLPTrainingSample rows with a correction, newest first
    call,         \* the latest classification request and its response
    ref,          \* an earlier classification request kept for comparison
    rule_list,    \* the latest response of GET /api/nlp/rules and its limit
    storage,      \* the Storage object of the application (app.state.storage)
    clock,       \* the clock, in seconds
    next_uuid,    \* the next value uuid4() returns
    last,         \* the latest call on the storage object or request to the API
    lock,         \* main.lock: "None" when free, else the request that holds it
    requests,     \* the item requests that arrived: where each one is, and its answer
    station_connections,  \* main.station_connections: station -> its list object
    lists,        \* the list objects: the websockets each one holds, in order
    tasks,        \* the broadcast_to_station tasks: where each one is in its loop
    sockets       \* the websockets: station, state and the messages received

normVars == <<norm_in, norm_out, norm_twice, norm_pc, norm_match>>

nlpGlobals == <<MENU_ITEMS, GRILL_SET, KITCHEN_SET, DRINK_SET>>

lineVars == <<ln_text, ln_menu, ln_pc, ln_parse, ln_cls>>

matchVars == <<mt_item, mt_unit, mt_qty, mt_pc, mt_res>>

svcVars == <<menu_json, db_menu, loaded_menu, samples, call, ref, rule_list>>

backVars == <<storage, clock, next_uuid, last>>

NoStorage == [impl |-> "none"]

NoCallYet == [op |-> "none", table |-> 0, arg |-> "None", ret |-> "None", raised |-> "None"]

BackIdle ==
    /\ storage = NoStorage
    /\ clock = 0
    /\ next_uuid = 1
    /\ last = NoCallYet

asyncVars == <<lock, requests, station_connections, lists, tasks, sockets>>

\* no request in flight, no websocket, no broadcast
AsyncIdle ==
    /\ lock = "None"
    /\ requests = <<>>
    /\ station_connections = <<>>
    /\ lists = <<>>
    /\ tasks = <<>>
    /\ sockets = <<>>

\* ------------------------------------------------------------------------
\* Bounds
\* ------------------------------------------------------------------------
MaxNormLen == 3

MaxLineLen == 4

MaxItemLen == 3

MaxSamples == 1

MaxRuleSamples == 3

\* ------------------------------------------------------------------------
\* Characters and literals
\* ------------------------------------------------------------------------
Ch(k, b) == [k |-> k, b |-> b, up |-> FALSE, acc |-> "none"]

G(s) == [i \in 1..Len(s) |-> Ch("gr", s[i])]

L(s) == [i \in 1..Len(s) |-> Ch("lat", s[i])]

D(s) == [i \in 1..Len(s) |-> Ch("dig", s[i])]

P(s) == [i \in 1..Len(s) |-> Ch("pun", s[i])]

SP == <<Ch("sp", " ")>>

NL == <<Ch("sp", "NL")>>

Up(s, i) == [s EXCEPT ![i].up = TRUE]

Ac(s, i) == [s EXCEPT ![i].acc = "tonos"]

Di(s, i) == [s EXCEPT ![i].acc = "dial"]

Mark(m) == <<Ch("mark", m)>>

\* str.isalnum / str.isspace / unicodedata.combining on one character
IsAlnum(c) == c.k \in {"gr", "lat", "dig"}

IsSpace(c) == c.k = "sp"

IsCombining(c) == c.k = "mark"

IsCased(c) == c.k \in {"gr", "lat"}

\* Unicode Case_Ignorable: nonspacing marks and MidNumLet/MidLetter/quote
IsCaseIgnorable(c) == c.k = "mark" \/ (c.k = "pun" /\ c.b \in {".", "'", ":"})

\* ------------------------------------------------------------------------
\* Generic sequence helpers
\* ------------------------------------------------------------------------
RECURSIVE Flatten(_)
Flatten(ss) == IF ss = <<>> THEN <<>> ELSE Head(ss) \o Flatten(Tail(ss))

RECURSIVE LStrip(_)
LStrip(s) == IF s # <<>> /\ IsSpace(Head(s)) THEN LStrip(Tail(s)) ELSE s

RECURSIVE RStrip(_)
RStrip(s) ==
    IF s # <<>> /\ IsSpace(s[Len(s)]) THEN RStrip(SubSeq(s, 1, Len(s) - 1)) ELSE s

\* str.strip()
Strip(s) == RStrip(LStrip(s))

\* a in b  (Python substring test on str)
IsSubstr(a, b) ==
    \E i \in 0..(Len(b) - Len(a)) : SubSeq(b, i + 1, i + Len(a)) = a

\* s.startswith(p)
StartsWith(s, p) == Len(p) <= Len(s) /\ SubSeq(s, 1, Len(p)) = p

\* ------------------------------------------------------------------------
\* str.lower(): case folding of letters; capital sigma becomes final sigma
\* when it ends a word (CPython final_sigma rule)
\* ------------------------------------------------------------------------
RECURSIVE CasedBefore(_, _)
CasedBefore(s, i) ==
    IF i < 1 THEN FALSE
    ELSE IF IsCaseIgnorable(s[i]) THEN CasedBefore(s, i - 1)
    ELSE IsCased(s[i])

RECURSIVE CasedAfter(_, _)
CasedAfter(s, i) ==
    IF i > Len(s) THEN FALSE
    ELSE IF IsCaseIgnorable(s[i]) THEN CasedAfter(s, i + 1)
    ELSE IsCased(s[i])

\* the capital letters Unicode gives no lowercase form (U+03D2 "ϒ"):
\* str.lower() leaves them as they are
Caseless(c) == c.k = "gr" /\ c.b = "Yhook"

IsCapitalSigma(c) == c.k = "gr" /\ c.b = "s" /\ c.up /\ c.acc = "none"

LowerAt(s, i) ==
    IF IsCapitalSigma(s[i]) /\ CasedBefore(s, i - 1) /\ ~CasedAfter(s, i + 1)
    THEN Ch("gr", "sf")
    ELSE IF Caseless(s[i]) THEN s[i]
    ELSE [s[i] EXCEPT !.up = FALSE]

Lower(s) == [i \in 1..Len(s) |-> LowerAt(s, i)]

\* ------------------------------------------------------------------------
\* unicodedata.normalize("NFD", s): a precomposed accented letter becomes
\* the base letter followed by the combining mark
\* ------------------------------------------------------------------------
NFDChar(c) ==
    IF c.acc = "none" THEN <<c>>
    ELSE <<[c EXCEPT !.acc = "none"], Ch("mark", c.acc)>>

NFD(s) == Flatten([i \in 1..Len(s) |-> NFDChar(s[i])])

NotCombining(c) == ~IsCombining(c)

\* nlp._strip_accents
_strip_accents(s) == SelectSeq(NFD(s), NotCombining)

AlnumOrSpace(c) == IsAlnum(c) \/ IsSpace(c)

\* re.sub(r"\s+", " ", s)
RECURSIVE CollapseSpaces(_)
CollapseSpaces(s) ==
    IF s = <<>> THEN <<>>
    ELSE IF IsSpace(Head(s))
         THEN SP \o CollapseSpaces(LStrip(s))
         ELSE <<Head(s)>> \o CollapseSpaces(Tail(s))

\* the filter and the collapse exchanged: whitespace is collapsed before
\* the punctuation between two blanks is dropped
NormalizeCollapseFirst(s) ==
    SelectSeq(Strip(CollapseSpaces(_strip_accents(Lower(Strip(s))))), AlnumOrSpace)

\* nlp._normalize_text_basic
_normalize_text_basic(s) ==
    Strip(CollapseSpaces(SelectSeq(_strip_accents(Lower(Strip(s))), AlnumOrSpace)))

\* ------------------------------------------------------------------------
\* Numbers: a Python float read from a decimal literal is kept as the exact
\* fraction n/d in lowest terms; None is [some |-> FALSE]
\* ------------------------------------------------------------------------
RECURSIVE GCD(_, _)
GCD(a, b) == IF b = 0 THEN a ELSE GCD(b, a % b)

Rat(n, d) == LET g == GCD(n, d) IN [some |-> TRUE, n |-> n \div g, d |-> d \div g]

NoneNum == [some |-> FALSE, n |-> 0, d |-> 1]

One == Rat(1, 1)

RatDiv(q, k) == Rat(q.n, q.d * k)

RatGeq(q, k) == q.n >= k * q.d

\* Optional strings: None is [some |-> FALSE]
NoneStr == [some |-> FALSE, s |-> <<>>]

Some(s) == [some |-> TRUE, s |-> s]

DigitVal(c) ==
    CASE c.b = "0" -> 0 [] c.b = "1" -> 1 [] c.b = "2" -> 2 [] c.b = "3" -> 3
      [] c.b = "4" -> 4 [] c.b = "5" -> 5 [] c.b = "6" -> 6 [] c.b = "7" -> 7
      [] c.b = "8" -> 8 [] c.b = "9" -> 9

RECURSIVE IntOf(_)
IntOf(ds) == IF ds = <<>> THEN 0 ELSE 10 * IntOf(SubSeq(ds, 1, Len(ds) - 1)) + DigitVal(ds[Len(ds)])

RECURSIVE Pow10(_)
Pow10(k) == IF k = 0 THEN 1 ELSE 10 * Pow10(k - 1)

\* float(int_digits "." frac_digits)
FloatOf(ip, fp) == Rat(IntOf(ip) * Pow10(Len(fp)) + IntOf(fp), Pow10(Len(fp)))

\* ------------------------------------------------------------------------
\* nlp._extract_parentheses
\* ------------------------------------------------------------------------
LPAR == Ch("pun", "(")

RPAR == Ch("pun", ")")

IsDigit(c) == c.k = "dig"

IsNewline(c) == c.k = "sp" /\ c.b = "NL"

\* index of the first element of s satisfying "is ch", 0 when there is none
RECURSIVE IndexOf(_, _, _)
IndexOf(s, ch, i) ==
    IF i > Len(s) THEN 0 ELSE IF s[i] = ch THEN i ELSE IndexOf(s, ch, i + 1)

\* one scan of the pattern \s*(\([^)]*\))\s* over text: base is the text
\* with every match replaced by one blank, parts the captured groups
RECURSIVE ParenScan(_)
ParenScan(s) ==
    IF s = <<>> THEN [base |-> <<>>, parts |-> <<>>]
    ELSE LET ws    == LStrip(s)
             close == IF ws # <<>> /\ Head(ws) = LPAR THEN IndexOf(ws, RPAR, 2) ELSE 0
         IN IF close > 0
            THEN LET rest == ParenScan(LStrip(SubSeq(ws, close + 1, Len(ws))))
                 IN [base  |-> SP \o rest.base,
                     parts |-> <<SubSeq(ws, 1, close)>> \o rest.parts]
            ELSE LET rest == ParenScan(Tail(s))
                 IN [base |-> <<Head(s)>> \o rest.base, parts |-> rest.parts]

RECURSIVE JoinWith(_, _)
JoinWith(parts, sep) ==
    IF parts = <<>> THEN <<>>
    ELSE IF Len(parts) = 1 THEN parts[1]
    ELSE parts[1] \o sep \o JoinWith(Tail(parts), sep)

\* an extraction that reports the parentheses but leaves them in the base
\* text
ExtractKeepingNotes(text) ==
    IF text = <<>> THEN [base_text |-> <<>>, parentheses_content |-> <<>>]
    ELSE [base_text |-> Strip(text),
          parentheses_content |-> JoinWith(ParenScan(text).parts, SP)]

_extract_parentheses(text) ==
    IF text = <<>> THEN [base_text |-> <<>>, parentheses_content |-> <<>>]
    ELSE LET sc == ParenScan(text)
         IN IF sc.parts = <<>>
            THEN [base_text |-> Strip(text), parentheses_content |-> <<>>]
            ELSE [base_text |-> Strip(CollapseSpaces(sc.base)),
                  parentheses_content |-> JoinWith(sc.parts, SP)]

\* ------------------------------------------------------------------------
\* nlp._parse_quantity_and_units
\* ------------------------------------------------------------------------
LiterUnits == { G(<<"l">>), G(<<"l", "t">>), L(<<"l", "t">>), L(<<"l">>) }

KiloUnits == { L(<<"k", "g">>), G(<<"k">>), G(<<"k", "i", "l", "a">>), G(<<"k", "i", "l", "o">>) }

MlUnit == L(<<"m", "l">>)

UnitTokens == LiterUnits \cup KiloUnits \cup {MlUnit}

CharIs(c, cls) ==
    CASE cls = "digit" -> IsDigit(c)
      [] cls = "space" -> IsSpace(c)
      [] cls = "nonspace" -> ~IsSpace(c)

\* length of the longest run of characters of class cls starting at s[i]
RECURSIVE SpanLen(_, _, _)
SpanLen(s, i, cls) ==
    IF i > Len(s) \/ ~CharIs(s[i], cls) THEN 0 ELSE 1 + SpanLen(s, i + 1, cls)

\* ^(\d+(?:\.\d+)?) : [ok, ip, fp, end] with end the index after the number
MatchNumber(s) ==
    LET n1 == SpanLen(s, 1, "digit")
        hasDot == n1 > 0 /\ n1 + 1 <= Len(s) /\ s[n1 + 1] = Ch("pun", ".")
        n2 == IF hasDot THEN SpanLen(s, n1 + 2, "digit") ELSE 0
    IN IF n1 = 0 THEN [ok |-> FALSE, ip |-> <<>>, fp |-> <<>>, end |-> 1]
       ELSE IF n2 > 0
            THEN [ok |-> TRUE, ip |-> SubSeq(s, 1, n1),
                  fp |-> SubSeq(s, n1 + 2, n1 + 1 + n2), end |-> n1 + n2 + 2]
            ELSE [ok |-> TRUE, ip |-> SubSeq(s, 1, n1), fp |-> <<>>, end |-> n1 + 1]

\* \s+(.+)$ from position i: the blank run, then a non-empty rest holding
\* no line feed ("." does not match it); the rest is returned, stripped
MatchRest(s, i) ==
    LET w == SpanLen(s, i, "space")
        rest == SubSeq(s, i + w, Len(s))
    IN IF w = 0 \/ rest = <<>> \/ (\E j \in 1..Len(rest) : IsNewline(rest[j]))
       THEN [ok |-> FALSE, item |-> <<>>]
       ELSE [ok |-> TRUE, item |-> Strip(rest)]

\* first pattern: number, optional unit glued to it (re.IGNORECASE), blanks,
\* item text.  group2 is the matched unit token or None.  num is the number
\* match, tl the length of the token after it, rst the match of the rest.
WithUnit(s, num, tl, rst) ==
    IF ~num.ok \/ ~rst.ok THEN [ok |-> FALSE, num |-> num, group2 |-> NoneStr, item |-> <<>>]
    ELSE IF tl = 0 THEN [ok |-> TRUE, num |-> num, group2 |-> NoneStr, item |-> rst.item]
    ELSE IF Lower(SubSeq(s, num.end, num.end + tl - 1)) \in UnitTokens
         THEN [ok |-> TRUE, num |-> num,
               group2 |-> Some(SubSeq(s, num.end, num.end + tl - 1)), item |-> rst.item]
         ELSE [ok |-> FALSE, num |-> num, group2 |-> NoneStr, item |-> <<>>]

TokenLen(s, num) == SpanLen(s, num.end, "nonspace")

\* the pattern with \s* between the number and the unit: blanks after the
\* number are skipped before the unit token is read
MatchAfterNumberSpaced(s, num) ==
    LET glued == SubSeq(s, 1, num.end - 1) \o LStrip(SubSeq(s, num.end, Len(s)))
    IN WithUnit(glued, num, TokenLen(glued, num),
                MatchRest(glued, num.end + TokenLen(glued, num)))

MatchAfterNumber(s, num) ==
    WithUnit(s, num, TokenLen(s, num), MatchRest(s, num.end + TokenLen(s, num)))

MatchWithUnit(s) == MatchAfterNumber(s, MatchNumber(s))

\* second pattern: number, blanks, item text
NoUnit(num, rst) == [ok |-> num.ok /\ rst.ok, num |-> num, item |-> rst.item]

NoUnitAfterNumber(s, num) == NoUnit(num, MatchRest(s, num.end))

MatchNoUnit(s) == NoUnitAfterNumber(s, MatchNumber(s))

\* millilitres counted against a litre instead of the 250 ml portion
UnitMultiplierPerLitre(quantity, unit) ==
    IF ~unit.some THEN NoneNum
    ELSE IF unit.s \in LiterUnits THEN quantity
    ELSE IF unit.s \in KiloUnits THEN quantity
    ELSE IF unit.s = MlUnit THEN RatDiv(quantity, 1000)
    ELSE NoneNum

UnitMultiplier(quantity, unit) ==
    IF ~unit.some THEN NoneNum
    ELSE IF unit.s \in LiterUnits THEN quantity
    ELSE IF unit.s \in KiloUnits THEN quantity
    ELSE IF unit.s = MlUnit THEN RatDiv(quantity, 250)
    ELSE NoneNum

\* main._normalize_text_for_match --------------------------------------
\* ^\d+(?:\.\d+)?(unit)?\s+ with re.IGNORECASE: the length of the prefix the
\* pattern matches at the start of s, 0 when it does not match
QuantityPrefixLen(s, num, tl, w) ==
    IF ~num.ok \/ w = 0 THEN 0
    ELSE IF tl = 0 \/ Lower(SubSeq(s, num.end, num.end + tl - 1)) \in UnitTokens
         THEN num.end - 1 + tl + w
         ELSE 0

StripQuantityPrefix(s, num) ==
    SubSeq(s,
           1 + QuantityPrefixLen(s, num, TokenLen(s, num),
                                 SpanLen(s, num.end + TokenLen(s, num), "space")),
           Len(s))

\* \w of a str pattern: alphanumerics and the underscore
IsWord(c) == IsAlnum(c) \/ c = Ch("pun", "_")

\* re.sub(r"[^\w\s...]", " ", t)
BlankNonWord(t) ==
    [i \in 1..Len(t) |-> IF IsWord(t[i]) \/ IsSpace(t[i]) THEN t[i] ELSE Ch("sp", " ")]

_normalize_text_for_match(s) ==
    IF s = <<>> THEN <<>>
    ELSE LET text == Strip(CollapseSpaces(ParenScan(Strip(s)).base))
             rest == StripQuantityPrefix(text, MatchNumber(text))
         IN Strip(CollapseSpaces(BlankNonWord(Lower(Strip(_strip_accents(rest))))))

Tuple4(q, u, m, t) ==
    [exc |-> "none", quantity |-> q, unit |-> u, unit_multiplier |-> m, item_text |-> t]

Raised(e) ==
    [exc |-> e, quantity |-> NoneNum, unit |-> NoneStr, unit_multiplier |-> NoneNum,
     item_text |-> <<>>]

\* the result built from the two regex matches m1 and m2 of the stripped
\* input s, with match.group(2).lower() evaluated without its guard
TupleUnguardedLower(s, m1, m2) ==
    IF m1.ok
    THEN IF ~m1.group2.some THEN Raised("AttributeError")
         ELSE Tuple4(FloatOf(m1.num.ip, m1.num.fp), Some(Lower(m1.group2.s)),
                     UnitMultiplier(FloatOf(m1.num.ip, m1.num.fp), Some(Lower(m1.group2.s))),
                     m1.item)
    ELSE IF m2.ok
         THEN Tuple4(FloatOf(m2.num.ip, m2.num.fp), NoneStr, NoneNum, m2.item)
         ELSE Tuple4(NoneNum, NoneStr, NoneNum, s)

ParseUnguardedLower(user_input) ==
    TupleUnguardedLower(Strip(user_input), MatchWithUnit(Strip(user_input)),
                        MatchNoUnit(Strip(user_input)))

\* the last return with the implicit count filled in by the parser itself:
\* (1, None, 1, text) instead of (None, None, None, text)
TupleDefaultOne(s, m1, m2) ==
    IF m1.ok
    THEN Tuple4(FloatOf(m1.num.ip, m1.num.fp),
                IF m1.group2.some THEN Some(Lower(m1.group2.s)) ELSE NoneStr,
                UnitMultiplier(FloatOf(m1.num.ip, m1.num.fp),
                               IF m1.group2.some THEN Some(Lower(m1.group2.s)) ELSE NoneStr),
                m1.item)
    ELSE IF m2.ok
         THEN Tuple4(FloatOf(m2.num.ip, m2.num.fp), NoneStr, NoneNum, m2.item)
         ELSE Tuple4(One, NoneStr, One, s)

\* the unit of the first match: match.group(2).lower() if match.group(2)
UnitOf(group2) == IF group2.some THEN Some(Lower(group2.s)) ELSE NoneStr

\* the returned tuple, from the two regex matches m1 and m2 of the stripped
\* input s
TupleOf(s, m1, m2) ==
    IF m1.ok
    THEN Tuple4(FloatOf(m1.num.ip, m1.num.fp), UnitOf(m1.group2),
                UnitMultiplier(FloatOf(m1.num.ip, m1.num.fp), UnitOf(m1.group2)), m1.item)
    ELSE IF m2.ok
         THEN Tuple4(FloatOf(m2.num.ip, m2.num.fp), NoneStr, NoneNum, m2.item)
         ELSE Tuple4(NoneNum, NoneStr, NoneNum, s)

_parse_quantity_and_units(user_input) ==
    TupleOf(Strip(user_input), MatchWithUnit(Strip(user_input)), MatchNoUnit(Strip(user_input)))

\* ------------------------------------------------------------------------
\* Stem lists and the stem sets built from them at import (nlp.py 36-115)
\* ------------------------------------------------------------------------
GRILL_STEMS ==
    << G(<<"m", "p", "r", "i", "z", "o", "l">>),
       Di(G(<<"p", "a", "i", "d">>), 3),
       Ac(Di(G(<<"p", "a", "i", "d", "a">>), 3), 5),
       Ac(G(<<"m", "p", "r", "i", "z", "o", "l">>), 6),
       G(<<"m", "p", "r", "i", "z", "o">>),
       G(<<"m", "p", "i", "f", "t", "e", "k">>),
       Ac(G(<<"m", "p", "i", "f", "t", "e", "k">>), 6),
       G(<<"l", "o", "y", "k", "a", "n">>),
       G(<<"c", "o", "i", "r", "i", "n">>),
       G(<<"m", "p", "o", "y", "t", "i">>),
       G(<<"s", "n", "i", "t", "s", "e", "l">>),
       G(<<"s", "o", "y", "v", "l", "a">>),
       Ac(Di(G(<<"p", "a", "i", "d", "a", "k">>), 3), 5),
       G(<<"m", "p", "e", "i", "k", "o", "n">>) >>

KITCHEN_STEMS ==
    << Ac(G(<<"f", "o", "y", "r", "n">>), 3),
       G(<<"t", "h", "g", "a", "n">>),
       Ac(G(<<"r", "a", "g", "o", "y">>), 5),
       G(<<"s", "o", "y", "p", "a">>),
       Ac(G(<<"s", "a", "l", "t">>), 2),
       G(<<"m", "p", "e", "s", "a", "m">>),
       G(<<"g", "k", "r", "a", "t", "e", "n">>),
       G(<<"o", "m", "e", "l", "e", "t">>),
       G(<<"p", "a", "s", "t">>) >>

DRINK_STEMS ==
    << Ac(G(<<"m", "p", "y", "r">>), 3),
       G(<<"m", "p", "y", "r">>),
       G(<<"o", "y", "z">>),
       G(<<"k", "r", "a", "s">>),
       G(<<"p", "o", "t", "o">>),
       G(<<"t", "s", "i", "p", "o", "y", "r">>),
       Ac(G(<<"t", "s", "i", "p", "o", "y", "r">>), 3),
       G(<<"a", "n", "a", "j", "y", "k">>),
       G(<<"n", "e", "r">>),
       G(<<"c", "y", "m">>) >>

_norm_list_to_set(lst) ==
    { _normalize_text_basic(lst[i]) : i \in 1..Len(lst) } \ { <<>> }

\* nlp._greek_stem
EndsWith(w, suf) == Len(suf) <= Len(w) /\ SubSeq(w, Len(w) - Len(suf) + 1, Len(w)) = suf

_greek_stem(word) ==
    IF word = <<>> THEN word
    ELSE IF EndsWith(word, G(<<"i", "a">>)) /\ Len(word) > 3
         THEN SubSeq(word, 1, Len(word) - 1)
    ELSE IF EndsWith(word, G(<<"e", "sf">>)) /\ Len(word) > 3
         THEN SubSeq(word, 1, Len(word) - 2)
    ELSE IF EndsWith(word, G(<<"o", "i">>)) /\ Len(word) > 3
         THEN SubSeq(word, 1, Len(word) - 2) \o G(<<"o", "sf">>)
    ELSE word

\* str.split(): the maximal runs of non-blank characters
RECURSIVE Split(_)
Split(s) ==
    LET t == LStrip(s)
        n == SpanLen(t, 1, "nonspace")
    IN IF t = <<>> THEN <<>>
       ELSE <<SubSeq(t, 1, n)>> \o Split(SubSeq(t, n + 1, Len(t)))

\* " ".join(_greek_stem(w) for w in s.split())
StemWords(s) ==
    LET ws == Split(s) IN JoinWith([i \in 1..Len(ws) |-> _greek_stem(ws[i])], SP)

\* ------------------------------------------------------------------------
\* Category strings
\* ------------------------------------------------------------------------
CatGrill == L(<<"g", "r", "i", "l", "l">>)

CatDrinks == L(<<"d", "r", "i", "n", "k", "s">>)

CatDrink == L(<<"d", "r", "i", "n", "k">>)

CatKitchen == L(<<"k", "i", "t", "c", "h", "e", "n">>)

GrillWords ==
    { L(<<"g", "r", "i", "l", "l">>),
      Ac(G(<<"g", "r", "i", "l">>), 3),
      Ac(G(<<"j", "h">>), 2),
      G(<<"j", "h", "t">>),
      L(<<"g", "r", "i", "l">>),
      Ac(G(<<"s", "c", "a", "r">>), 3) }

DrinkWords ==
    { L(<<"d", "r", "i", "n", "k">>),
      L(<<"d", "r", "i", "n", "k", "s">>),
      L(<<"b", "e", "e", "r">>),
      G(<<"m", "p", "y", "r">>),
      G(<<"k", "r", "a", "s">>),
      L(<<"w", "i", "n", "e">>),
      L(<<"w", "i", "n", "e", "s">>),
      L(<<"s", "p", "i", "r", "i", "t", "s">>),
      L(<<"s", "p", "i", "r", "i", "t">>),
      L(<<"b", "e", "e", "r", "s">>),
      L(<<"s", "o", "f", "t">>),
      G(<<"a", "n", "a", "j", "y", "k">>),
      G(<<"p", "o", "t", "o">>),
      G(<<"s", "y">>) }

GrillWordsGreek ==
    { G(<<"j", "h", "t">>),
      Ac(G(<<"s", "c", "a", "r", "a">>), 3),
      G(<<"s", "c", "a", "r">>),
      G(<<"j", "h">>) }

DrinkWordsGreek ==
    { G(<<"k", "r", "a", "s", "i">>),
      G(<<"m", "p", "y", "r", "a">>),
      G(<<"o", "y", "z", "o">>),
      G(<<"p", "o", "t", "o">>),
      G(<<"a", "n", "a", "j", "y", "k">>) }

KitchenWords ==
    { L(<<"k", "i", "t", "c", "h", "e", "n">>),
      G(<<"k", "o", "y", "z", "i", "n">>),
      L(<<"s", "p", "e", "c", "i", "a", "l">>),
      G(<<"f", "o", "y", "r", "n">>) }

AnyIn(words, s) == \E w \in words : IsSubstr(w, s)

\* nlp._categorize_raw; cat_raw is <<>> for None or the empty string
_categorize_raw(cat_raw) ==
    IF cat_raw = <<>> THEN NoneStr
    ELSE LET s == _normalize_text_basic(cat_raw)
         IN IF AnyIn(GrillWords, s) THEN Some(CatGrill)
            ELSE IF AnyIn(DrinkWords, s) THEN Some(CatDrinks)
            ELSE IF AnyIn(GrillWordsGreek, s) THEN Some(CatGrill)
            ELSE IF AnyIn(DrinkWordsGreek, s) THEN Some(CatDrinks)
            ELSE IF AnyIn(KitchenWords, s) THEN Some(CatKitchen)
            ELSE Some(CatKitchen)

\* ------------------------------------------------------------------------
\* The menu snapshot (menu.json) and the module globals built from it
\*   snapshot : [fmt, sections, entries]
\*     fmt = "dict"   sections = << [top_cat, is_list, items] >>
\*     fmt = "list"   entries  = << entry >>            (legacy format)
\*     fmt = "absent" no readable menu.json (missing file or json error)
\*   entry    : [kind, name, id, price, category]
\*     kind = "dict" | "dictnum" | "str" | "other"; name is "name" or "title"
\*     ("dictnum": a dict whose name is a non-zero number, name holds str(name));
\*     id = "None" for a missing id; category = <<>> for a missing one
\* A dict keeps insertion order: it is a sequence of [key, val] pairs.
\* ------------------------------------------------------------------------
RECURSIVE DictFind(_, _, _)
DictFind(d, k, i) ==
    IF i > Len(d) THEN 0 ELSE IF d[i].key = k THEN i ELSE DictFind(d, k, i + 1)

\* d[k] = v
DictPut(d, k, v) ==
    LET i == DictFind(d, k, 1)
    IN IF i = 0 THEN Append(d, [key |-> k, val |-> v])
       ELSE [d EXCEPT ![i] = [key |-> k, val |-> v]]

\* a setdefault that replaces the value of a key that is already there
DictSetDefaultReplacing(d, k, v) ==
    IF DictFind(d, k, 1) = 0 THEN Append(d, [key |-> k, val |-> v])
    ELSE [d EXCEPT ![DictFind(d, k, 1)] = [key |-> k, val |-> v]]

\* d.setdefault(k, v)
DictSetDefault(d, k, v) ==
    IF DictFind(d, k, 1) = 0 THEN Append(d, [key |-> k, val |-> v]) ELSE d

BaseGlobals ==
    [MENU_ITEMS  |-> <<>>,
     GRILL_SET   |-> _norm_list_to_set(GRILL_STEMS),
     KITCHEN_SET |-> _norm_list_to_set(KITCHEN_STEMS),
     DRINK_SET   |-> _norm_list_to_set(DRINK_STEMS)]

AddToStemSet(g, cat, nn) ==
    IF cat = Some(CatGrill) THEN [g EXCEPT !.GRILL_SET = @ \cup {nn}]
    ELSE IF cat = Some(CatDrinks) THEN [g EXCEPT !.DRINK_SET = @ \cup {nn}]
    ELSE [g EXCEPT !.KITCHEN_SET = @ \cup {nn}]

EntryName(entry) == IF entry.kind = "other" THEN <<>> ELSE entry.name

\* isinstance(entry, dict)
IsDict(entry) == entry.kind \in {"dict", "dictnum"}

\* the Python type of the name the index keeps: the loaders store the name
\* as it is in the file, whatever str() made of it for the key
NameType(entry) == IF entry.kind = "dictnum" THEN "int" ELSE "str"

\* one entry of a section of the dict format (nlp.py 158-199)
LoadDictEntry(g, top_cat, entry) ==
    LET name      == EntryName(entry)
        entry_cat == IF IsDict(entry)
                     THEN (IF entry.category # <<>> THEN entry.category ELSE top_cat)
                     ELSE <<>>
        entry_id  == IF IsDict(entry) THEN entry.id ELSE "None"
        price     == IF IsDict(entry) THEN entry.price ELSE NoneNum
        nn        == _normalize_text_basic(name)
        guess1    == IF entry_cat # <<>> THEN _categorize_raw(entry_cat) ELSE NoneStr
        cat_guess == IF guess1.some THEN guess1 ELSE _categorize_raw(top_cat)
        item      == [id |-> entry_id, name |-> name, name_type |-> NameType(entry),
                      price |-> price, category |-> cat_guess]
    IN IF entry.kind = "other" \/ nn = <<>> THEN g
       ELSE AddToStemSet([g EXCEPT !.MENU_ITEMS = DictPut(@, nn, item)], cat_guess, nn)

RECURSIVE LoadDictItems(_, _, _)
LoadDictItems(g, top_cat, items) ==
    IF items = <<>> THEN g
    ELSE LoadDictItems(LoadDictEntry(g, top_cat, Head(items)), top_cat, Tail(items))

RECURSIVE LoadDictSections(_, _)
LoadDictSections(g, sections) ==
    IF sections = <<>> THEN g
    ELSE LET sec == Head(sections)
             g1  == IF sec.is_list THEN LoadDictItems(g, sec.top_cat, sec.items) ELSE g
         IN LoadDictSections(g1, Tail(sections))

\* one entry of the legacy list format (nlp.py 203-250)
LoadListEntry(g, entry) ==
    LET name  == EntryName(entry)
        cat   == IF IsDict(entry) THEN entry.category ELSE <<>>
        cat_l == Lower(cat)
        nn    == _normalize_text_basic(name)
        item  == [id |-> IF IsDict(entry) THEN entry.id ELSE "None",
                  name |-> name, name_type |-> NameType(entry),
                  price |-> IF IsDict(entry) THEN entry.price ELSE NoneNum,
                  category |-> IF cat # <<>> THEN Some(cat_l) ELSE NoneStr]
        g1    == [g EXCEPT !.MENU_ITEMS = DictPut(@, nn, item)]
    IN IF entry.kind = "other" \/ nn = <<>> THEN g
       ELSE IF cat # <<>>
            THEN IF cat_l = CatGrill THEN [g1 EXCEPT !.GRILL_SET = @ \cup {nn}]
                 ELSE IF cat_l \in {CatDrinks, CatDrink} THEN [g1 EXCEPT !.DRINK_SET = @ \cup {nn}]
                 ELSE [g1 EXCEPT !.KITCHEN_SET = @ \cup {nn}]
            ELSE IF \E st \in g1.GRILL_SET : IsSubstr(st, nn)
                 THEN [g1 EXCEPT !.GRILL_SET = @ \cup {nn}]
                 ELSE IF \E st \in g1.DRINK_SET : IsSubstr(st, nn)
                      THEN [g1 EXCEPT !.DRINK_SET = @ \cup {nn}]
                      ELSE [g1 EXCEPT !.KITCHEN_SET = @ \cup {nn}]

RECURSIVE LoadListEntries(_, _)
LoadListEntries(g, entries) ==
    IF entries = <<>> THEN g
    ELSE LoadListEntries(LoadListEntry(g, Head(entries)), Tail(entries))

\* the load that keeps the stem sets of the previous load and only adds
\* to them (an in-place refresh without a reset)
LoadOnto(g, menu_j) ==
    IF menu_j.fmt = "dict" THEN LoadDictSections(g, menu_j.sections)
    ELSE IF menu_j.fmt = "list" THEN LoadListEntries(g, menu_j.entries)
    ELSE g

\* module import: the globals start from the stem lists and menu.json is
\* read into them (nlp.py 113-255)
ImportModule(menu_j) == LoadOnto(BaseGlobals, menu_j)

\* ------------------------------------------------------------------------
\* nlp._contains_stem
\* ------------------------------------------------------------------------
_contains_stem(norm_text, stem_set) ==
    /\ norm_text # <<>>
    /\ \E st \in stem_set :
          st # <<>> /\ (IsSubstr(st, norm_text) \/ IsSubstr(norm_text, st))

\* ------------------------------------------------------------------------
\* nlp._find_menu_match_with_units
\* A score is the fraction n/d; the Python floats min/max + 1.0, - 0.5,
\* - 0.3 are kept exact (tenths over the longer length).  Thresholds are in
\* tenths.
\* ------------------------------------------------------------------------
THRESHOLD == 3

SizeLt == P(<<"(">>) \o D(<<"1">>) \o L(<<"l", "t">>) \o P(<<")">>)

Size1 == P(<<"(">>) \o D(<<"1">>) \o P(<<")">>)

SizeHalf == P(<<"(">>) \o D(<<"0">>) \o P(<<".">>) \o D(<<"5">>) \o P(<<")">>)

Size250 == P(<<"(">>) \o D(<<"2", "5", "0">>) \o P(<<")">>)

Size500 == P(<<"(">>) \o D(<<"5", "0", "0">>) \o P(<<")">>)

KgPrefix == G(<<"k">>) \o SP

ScoreGt(x, y) == x.n * y.d > y.n * x.d

ScoreGeqTenths(x, t) == 10 * x.n >= t * x.d

ZeroScore == [n |-> 0, d |-> 1]

Min(a, b) == IF a <= b THEN a ELSE b

Max(a, b) == IF a >= b THEN a ELSE b

IsKgItem(menu_name) == StartsWith(menu_name, KgPrefix)

\* menu_name.split("(")[0]
BeforeParen(name) ==
    LET i == IndexOf(name, LPAR, 1) IN IF i = 0 THEN name ELSE SubSeq(name, 1, i - 1)

BaseMenuName(menu_name) ==
    LET b1 == IF IsKgItem(menu_name) THEN SubSeq(menu_name, 3, Len(menu_name)) ELSE menu_name
        has_size_spec == IndexOf(menu_name, LPAR, 1) > 0 /\ IndexOf(menu_name, RPAR, 1) > 0
    IN IF has_size_spec THEN Strip(BeforeParen(b1)) ELSE b1

\* the weight bonus and the penalty exchanged: a weight query rewards the
\* entries that are not priced by weight
UnitAdjustPortionFirst(menu_name, unit, quantity) ==
    IF unit.some /\ unit.s \in KiloUnits
    THEN (IF IsKgItem(menu_name) THEN -5 ELSE 10)
    ELSE IF unit.some /\ unit.s \in LiterUnits
    THEN (IF IsSubstr(SizeLt, menu_name) \/ IsSubstr(Size1, menu_name) THEN 10
          ELSE IF IsSubstr(SizeHalf, menu_name) THEN -3 ELSE 0)
    ELSE IF unit.some /\ unit.s = MlUnit
    THEN (IF IsSubstr(Size250, menu_name) /\ RatGeq(quantity, 250) THEN 10
          ELSE IF IsSubstr(Size500, menu_name) /\ RatGeq(quantity, 500) THEN 10 ELSE 0)
    ELSE (IF IsKgItem(menu_name) THEN -5
          ELSE IF IsSubstr(SizeLt, menu_name) THEN -3 ELSE 0)

\* the unit adjustment of one entry, in tenths (nlp.py 455-479)
UnitAdjust(menu_name, unit, quantity) ==
    IF unit.some /\ unit.s \in KiloUnits
    THEN (IF IsKgItem(menu_name) THEN 10 ELSE -5)
    ELSE IF unit.some /\ unit.s \in LiterUnits
    THEN (IF IsSubstr(SizeLt, menu_name) \/ IsSubstr(Size1, menu_name) THEN 10
          ELSE IF IsSubstr(SizeHalf, menu_name) THEN -3 ELSE 0)
    ELSE IF unit.some /\ unit.s = MlUnit
    THEN (IF IsSubstr(Size250, menu_name) /\ RatGeq(quantity, 250) THEN 10
          ELSE IF IsSubstr(Size500, menu_name) /\ RatGeq(quantity, 500) THEN 10 ELSE 0)
    ELSE (IF IsKgItem(menu_name) THEN -5
          ELSE IF IsSubstr(SizeLt, menu_name) THEN -3 ELSE 0)

\* the outcome of scoring one entry: "skip" (no match), "score", or
\* "ZeroDivisionError" when both compared strings are empty
ScoreEntry(norm_input, menu_name, unit, quantity) ==
    LET norm_base_menu == _normalize_text_basic(BaseMenuName(menu_name))
        stemmed_input  == StemWords(norm_input)
        stemmed_menu   == StemWords(norm_base_menu)
        match_found    ==
            \/ IsSubstr(norm_input, norm_base_menu) \/ IsSubstr(norm_base_menu, norm_input)
            \/ IsSubstr(stemmed_input, stemmed_menu) \/ IsSubstr(stemmed_menu, stemmed_input)
        lo == Min(Len(norm_input), Len(norm_base_menu))
        hi == Max(Len(norm_input), Len(norm_base_menu))
    IN IF ~match_found THEN [out |-> "skip", score |-> ZeroScore]
       ELSE IF hi = 0 THEN [out |-> "ZeroDivisionError", score |-> ZeroScore]
       ELSE [out |-> "score",
             score |-> [n |-> 10 * lo + UnitAdjust(menu_name, unit, quantity) * hi,
                        d |-> 10 * hi]]

NoItem ==
    [id |-> "None", name |-> <<>>, name_type |-> "str", price |-> NoneNum, category |-> NoneStr]

\* the loop over MENU_ITEMS.items(): [exc, found, best_match, best_score];
\* menu_name.startswith raises AttributeError on a name that is no string
RECURSIVE BestMatch(_, _, _, _, _)
BestMatch(items, norm_input, unit, quantity, acc) ==
    IF items = <<>> \/ acc.exc # "none" THEN acc
    ELSE LET menu_data == Head(items).val
             r == ScoreEntry(norm_input, menu_data.name, unit, quantity)
             acc1 == IF menu_data.name_type # "str"
                     THEN [acc EXCEPT !.exc = "AttributeError"]
                     ELSE IF r.out = "ZeroDivisionError" THEN [acc EXCEPT !.exc = r.out]
                     ELSE IF r.out = "score" /\ ScoreGt(r.score, acc.best_score)
                          THEN [exc |-> "none", found |-> TRUE,
                                best_match |-> menu_data, best_score |-> r.score]
                          ELSE acc
         IN BestMatch(Tail(items), norm_input, unit, quantity, acc1)

NoBest == [exc |-> "none", found |-> FALSE, best_match |-> NoItem, best_score |-> ZeroScore]

\* the default applied to a missing quantity only: 0 stays 0
OrOneIfNone(q) == IF q.some THEN q ELSE One

\* quantity or 1
OrOne(q) == IF q.some /\ q.n # 0 THEN q ELSE One

MatchResult(id, name, price, category, multiplier) ==
    [exc |-> "none", menu_id |-> id, menu_name |-> name, price |-> price,
     category |-> category, multiplier |-> multiplier]

NoMatch(quantity) == MatchResult("None", NoneStr, NoneNum, NoneStr, OrOne(quantity))

MatchRaised(e) ==
    [exc |-> e, menu_id |-> "None", menu_name |-> NoneStr, price |-> NoneNum,
     category |-> NoneStr, multiplier |-> One]

Multiplier(best_name, unit, quantity) ==
    IF unit.some /\ unit.s \in (KiloUnits \cup LiterUnits) THEN quantity
    ELSE IF unit.some /\ unit.s = MlUnit
    THEN (IF IsSubstr(Size250, best_name) THEN RatDiv(quantity, 250)
          ELSE IF IsSubstr(Size500, best_name) THEN RatDiv(quantity, 500)
          ELSE RatDiv(quantity, 1000))
    ELSE OrOne(quantity)

\* the acceptance test written the wrong way round: best_score <= threshold
FindMenuMatchInverted(menu_items, item_text, unit, quantity, thr) ==
    LET norm_input == _normalize_text_basic(item_text)
        b == BestMatch(menu_items, norm_input, unit, quantity, NoBest)
    IN IF norm_input = <<>> THEN NoMatch(quantity)
       ELSE IF b.exc # "none" THEN MatchRaised(b.exc)
       ELSE IF b.found /\ ~ScoreGt(b.best_score, [n |-> thr, d |-> 10])
            THEN MatchResult(b.best_match.id, Some(b.best_match.name), b.best_match.price,
                             b.best_match.category, Multiplier(b.best_match.name, unit, quantity))
            ELSE NoMatch(quantity)

\* the no-match return that keeps the price of the best candidate seen
FindMenuMatchKeepPrice(menu_items, item_text, unit, quantity, thr) ==
    LET norm_input == _normalize_text_basic(item_text)
        b == BestMatch(menu_items, norm_input, unit, quantity, NoBest)
    IN IF norm_input = <<>> THEN NoMatch(quantity)
       ELSE IF b.exc # "none" THEN MatchRaised(b.exc)
       ELSE IF b.found /\ ScoreGeqTenths(b.best_score, thr)
            THEN MatchResult(b.best_match.id, Some(b.best_match.name), b.best_match.price,
                             b.best_match.category, Multiplier(b.best_match.name, unit, quantity))
            ELSE MatchResult("None", NoneStr, b.best_match.price, NoneStr, OrOne(quantity))

\* the matcher with the acceptance threshold thr (tenths) as a parameter
FindMenuMatch(menu_items, item_text, unit, quantity, thr) ==
    LET norm_input == _normalize_text_basic(item_text)
        b == BestMatch(menu_items, norm_input, unit, quantity, NoBest)
    IN IF norm_input = <<>> THEN NoMatch(quantity)
       ELSE IF b.exc # "none" THEN MatchRaised(b.exc)
       ELSE IF b.found /\ ScoreGeqTenths(b.best_score, thr)
            THEN MatchResult(b.best_match.id, Some(b.best_match.name), b.best_match.price,
                             b.best_match.category, Multiplier(b.best_match.name, unit, quantity))
            ELSE NoMatch(quantity)

_find_menu_match_with_units(menu_items, item_text, unit, quantity) ==
    FindMenuMatch(menu_items, item_text, unit, quantity, THRESHOLD)

\* ------------------------------------------------------------------------
\* The optional spaCy pipeline (nlp.py 26-34, 549-557).  The model is the
\* deployment in which the Greek model el_core_news_sm is not installed:
\* spacy.load raises, nlp_model is None and lemmas is the normalized text.
\* ------------------------------------------------------------------------
nlp_model == "None"

Lemmas(norm) == norm

\* ------------------------------------------------------------------------
\* nlp.classify_order
\* ------------------------------------------------------------------------
\* str.splitlines()
RECURSIVE SplitLines(_)
SplitLines(s) ==
    IF s = <<>> THEN <<>>
    ELSE LET i == IndexOf(s, NL[1], 1)
         IN IF i = 0 THEN <<s>>
            ELSE <<SubSeq(s, 1, i - 1)>> \o SplitLines(SubSeq(s, i + 1, Len(s)))

NonBlank(ln) == Strip(ln) # <<>>

NonEmpty(ln) == ln # <<>>

\* the list comprehension that keeps every line that is not the empty
\* string, blank lines included
LinesKeepBlank(order_text) == SelectSeq(SplitLines(order_text), NonEmpty)

\* lines = [ln for ln in order_text.splitlines() if ln.strip()]
OrderLines(order_text) == SelectSeq(SplitLines(order_text), NonBlank)

\* the keyword fallback with the drink stems tried before the grill stems
KeywordCategoryDrinksFirst(g, lemmas, norm) ==
    IF _contains_stem(lemmas, g.DRINK_SET) \/ _contains_stem(norm, g.DRINK_SET)
    THEN CatDrinks
    ELSE IF _contains_stem(lemmas, g.GRILL_SET) \/ _contains_stem(norm, g.GRILL_SET)
    THEN CatGrill
    ELSE CatKitchen

\* the keyword fallback (nlp.py 568-576)
KeywordCategory(g, lemmas, norm) ==
    IF _contains_stem(lemmas, g.GRILL_SET) \/ _contains_stem(norm, g.GRILL_SET)
    THEN CatGrill
    ELSE IF _contains_stem(lemmas, g.DRINK_SET) \/ _contains_stem(norm, g.DRINK_SET)
    THEN CatDrinks
    ELSE CatKitchen

Truthy(id) == id \notin {"None", ""}

Classified(text, category, m) ==
    [exc |-> m.exc, text |-> text, category |-> category, menu_id |-> m.menu_id,
     menu_name |-> m.menu_name, price |-> m.price, multiplier |-> m.multiplier]

\* the category decision and the appended record (nlp.py 562-585)
ClassifyMatched(g, original, norm, menu_match) ==
    Classified(original,
               IF Truthy(menu_match.menu_id) /\ menu_match.category.some
                  /\ menu_match.category.s # <<>>
               THEN menu_match.category.s
               ELSE KeywordCategory(g, Lemmas(norm), norm),
               menu_match)

\* the line after quantity and unit parsing (nlp.py 546-560)
ClassifyParsed(g, original, parsed) ==
    IF parsed.exc # "none" THEN Classified(original, <<>>, MatchRaised(parsed.exc))
    ELSE ClassifyMatched(g, original, _normalize_text_basic(parsed.item_text),
                         _find_menu_match_with_units(g.MENU_ITEMS, parsed.item_text,
                                                     parsed.unit, OrOne(parsed.quantity)))

\* quantity, unit and item text of a line, its parentheses set aside
ParsedLine(ln) == _parse_quantity_and_units(_extract_parentheses(Strip(ln)).base_text)

\* the body of the loop over the lines (nlp.py 536-585)
ClassifyLine(g, ln) == ClassifyParsed(g, Strip(ln), ParsedLine(ln))

FirstExc(rs) ==
    IF \E i \in 1..Len(rs) : rs[i].exc # "none"
    THEN rs[CHOOSE i \in 1..Len(rs) :
                /\ rs[i].exc # "none"
                /\ \A j \in 1..(i - 1) : rs[j].exc = "none"].exc
    ELSE "none"

\* [exc, results]: the returned list, or the exception the call raised
ResultsOrRaise(rs) ==
    IF FirstExc(rs) # "none" THEN [exc |-> FirstExc(rs), results |-> <<>>]
    ELSE [exc |-> "none", results |-> rs]

ClassifyLines(g, lines) ==
    ResultsOrRaise([i \in 1..Len(lines) |-> ClassifyLine(g, lines[i])])

classify_order(g, order_text) == ClassifyLines(g, OrderLines(order_text))

\* ------------------------------------------------------------------------
\* The correction overrides.  app.nlp of this repository version has no
\* _normalize_rule_key, build_override_rules, refresh_menu_items and no
\* override_rules parameter; main.py, menu_router.py and nlp_router.py call
\* them.  They are modelled from the specification (sections 3, 4.6, 5).
\* ------------------------------------------------------------------------
\* the normalized raw text of a line or of a correction
_normalize_rule_key(raw_text) ==
    _normalize_text_basic(_extract_parentheses(Strip(raw_text)).base_text)

\* newest-first samples -> ordered mapping key -> corrected id; the first
\* (most recent) sample of a key wins
RECURSIVE build_override_rules(_, _)
build_override_rules(samps, rules) ==
    IF samps = <<>> THEN rules
    ELSE LET key == _normalize_rule_key(Head(samps).raw_text)
         IN build_override_rules(Tail(samps),
                IF key = <<>> THEN rules
                ELSE DictSetDefault(rules, key, Head(samps).corrected_menu_item_id))

\* a lookup that falls back to the last entry of the index when no entry
\* has the id
EntryByIdOrLast(menu_items, id) ==
    IF \E k \in 1..Len(menu_items) : menu_items[k].val.id = id
    THEN menu_items[CHOOSE k \in 1..Len(menu_items) :
                        /\ menu_items[k].val.id = id
                        /\ \A j \in 1..(k - 1) : menu_items[j].val.id # id].val
    ELSE IF menu_items # <<>> THEN menu_items[Len(menu_items)].val
    ELSE NoItem

\* the index entry that has the id, or NoItem
EntryById(menu_items, id) ==
    IF \E k \in 1..Len(menu_items) : menu_items[k].val.id = id
    THEN menu_items[CHOOSE k \in 1..Len(menu_items) :
                        /\ menu_items[k].val.id = id
                        /\ \A j \in 1..(k - 1) : menu_items[j].val.id # id].val
    ELSE NoItem

\* the rule at position k of the rules (0: no rule): its target entry in
\* the current index, NoItem when the target is not there
RuleEntry(menu_items, override_rules, k) ==
    IF k = 0 THEN NoItem
    ELSE IF ~Truthy(override_rules[k].val) THEN NoItem
    ELSE EntryById(menu_items, override_rules[k].val)

\* the entry an applicable override gives the line, NoItem when none applies
OverrideEntry(g, ln, override_rules) ==
    RuleEntry(g.MENU_ITEMS, override_rules, DictFind(override_rules, _normalize_rule_key(ln), 1))

\* the record of a line whose override entry is e
Overridden(plain, e, parsed) ==
    Classified(plain.text,
               IF e.category.some /\ e.category.s # <<>> THEN e.category.s ELSE plain.category,
               MatchResult(e.id, Some(e.name), e.price, e.category,
                           Multiplier(e.name, parsed.unit, OrOne(parsed.quantity))))

\* the fuzzy matcher wins whenever it finds a match; the override is
\* consulted only for unmatched lines
MatcherFirst(plain, e, parsed) ==
    IF plain.menu_name.some \/ e.id = "None" \/ plain.exc # "none" THEN plain
    ELSE Overridden(plain, e, parsed)

ClassifyLineMatcherFirst(g, ln, override_rules) ==
    MatcherFirst(ClassifyLine(g, ln), OverrideEntry(g, ln, override_rules), ParsedLine(ln))

\* an applicable override short-circuits matching and category resolution,
\* its entry is read from the current index
OverrideFirst(plain, e, parsed) ==
    IF e.id = "None" \/ plain.exc # "none" THEN plain ELSE Overridden(plain, e, parsed)

\* one line with overrides
ClassifyLineWithRules(g, ln, override_rules) ==
    OverrideFirst(ClassifyLine(g, ln), OverrideEntry(g, ln, override_rules), ParsedLine(ln))

\* classify_order(order_text, override_rules=...)
ClassifyLinesWithRules(g, lines, override_rules) ==
    ResultsOrRaise([i \in 1..Len(lines) |-> ClassifyLineWithRules(g, lines[i], override_rules)])

classify_order_with_rules(g, order_text, override_rules) ==
    ClassifyLinesWithRules(g, OrderLines(order_text), override_rules)

\* nlp.refresh_menu_items(menu_dict): a new snapshot replaces the index
\* wholesale
refresh_menu_items(menu_dict) == ImportModule(menu_dict)

\* a process start rebuilds the globals from nothing (the old process's
\* globals g are gone)
ReimportInPlace(g, menu_j) == LoadOnto(g, menu_j)

Reimport(g, menu_j) == ImportModule(menu_j)

\* ------------------------------------------------------------------------
\* Menu snapshots and order lines the model draws its inputs from
\* ------------------------------------------------------------------------
MenuAbsent ==
    [fmt |-> "absent", sections |-> <<>>, entries |-> <<>>]

MenuSpec ==
    [fmt |-> "dict", entries |-> <<>>,
     sections |-> <<
         [top_cat |-> Up(L(<<"d", "r", "i", "n", "k", "s">>), 1), is_list |-> TRUE,
           items |-> << [kind |-> "dict", name |-> Ac(Up(G(<<"m", "y", "q", "o", "sf">>), 1), 2), id |-> "beer01", price |-> Rat(4, 1), category |-> L(<<"d", "r", "i", "n", "k", "s">>)] >>],
         [top_cat |-> Up(L(<<"g", "r", "i", "l", "l">>), 1), is_list |-> TRUE,
           items |-> << [kind |-> "dict", name |-> G(<<"k">>) \o SP \o Ac(Up(G(<<"a", "r", "n", "i", "s", "i", "a">>), 1), 4) \o SP \o Ac(Di(G(<<"p", "a", "i", "d", "a", "k", "i", "a">>), 3), 5), id |-> "lamb_kg", price |-> Rat(40, 1), category |-> L(<<"g", "r", "i", "l", "l">>)],
                      [kind |-> "dict", name |-> Ac(Up(G(<<"a", "r", "n", "i", "s", "i", "a">>), 1), 4) \o SP \o Ac(Di(G(<<"p", "a", "i", "d", "a", "k", "i", "a">>), 3), 5), id |-> "lamb_portion", price |-> Rat(15, 1), category |-> L(<<"g", "r", "i", "l", "l">>)] >>] >>]

MenuWine ==
    [fmt |-> "dict", entries |-> <<>>,
     sections |-> <<
         [top_cat |-> Ac(Up(G(<<"k", "r", "a", "s", "i", "a">>), 1), 6), is_list |-> TRUE,
           items |-> << [kind |-> "dict", name |-> Ac(Up(G(<<"k", "r", "a", "s", "i">>), 1), 5) \o SP \o Ac(G(<<"l", "e", "y", "k", "o">>), 5) \o SP \o P(<<"(">>) \o D(<<"1">>) \o L(<<"l", "t">>) \o P(<<")">>), id |-> "w1", price |-> Rat(10, 1), category |-> <<>>],
                      [kind |-> "dict", name |-> Ac(Up(G(<<"k", "r", "a", "s", "i">>), 1), 5) \o SP \o Ac(G(<<"l", "e", "y", "k", "o">>), 5) \o SP \o P(<<"(">>) \o D(<<"0">>) \o P(<<".">>) \o D(<<"5">>) \o P(<<")">>), id |-> "w05", price |-> Rat(6, 1), category |-> <<>>] >>],
         [top_cat |-> Up(L(<<"b", "a", "r">>), 1), is_list |-> TRUE,
           items |-> << [kind |-> "dict", name |-> Ac(Up(G(<<"r", "a", "k", "i">>), 1), 4) \o SP \o P(<<"(">>) \o D(<<"2", "5", "0">>) \o P(<<")">>), id |-> "r250", price |-> Rat(5, 1), category |-> L(<<"b", "a", "r">>)] >>],
         [top_cat |-> Up(L(<<"s", "a", "l", "a", "d", "s">>), 1), is_list |-> TRUE,
           items |-> << [kind |-> "str", name |-> Ac(Up(G(<<"s", "a", "l", "a", "t", "a">>), 1), 4), id |-> "None", price |-> NoneNum, category |-> <<>>] >>] >>]

MenuTiny ==
    [fmt |-> "dict", entries |-> <<>>,
     sections |-> <<
         [top_cat |-> Up(L(<<"g", "r", "i", "l", "l">>), 1), is_list |-> TRUE,
           items |-> << [kind |-> "dict", name |-> G(<<"k">>) \o SP \o G(<<"a", "a">>), id |-> "g_kg", price |-> Rat(20, 1), category |-> <<>>],
                      [kind |-> "dict", name |-> G(<<"a", "a">>), id |-> "g_p", price |-> Rat(8, 1), category |-> <<>>] >>],
         [top_cat |-> Up(L(<<"b", "a", "r">>), 1), is_list |-> TRUE,
           items |-> << [kind |-> "dict", name |-> G(<<"k", "a">>) \o SP \o P(<<"(">>) \o D(<<"2", "5", "0">>) \o P(<<")">>), id |-> "b1", price |-> Rat(3, 1), category |-> L(<<"b", "a", "r">>)],
                      [kind |-> "dict", name |-> P(<<"(">>) \o D(<<"1">>) \o P(<<")">>), id |-> "x1", price |-> Rat(1, 1), category |-> <<>>],
                      [kind |-> "dict", name |-> G(<<"a">>) \o D(<<"2">>), id |-> "None", price |-> NoneNum, category |-> <<>>] >>] >>]

MenuLegacy ==
    [fmt |-> "list", sections |-> <<>>,
     entries |-> << [kind |-> "dict", name |-> Ac(Up(G(<<"m", "y", "q", "o", "sf">>), 1), 2), id |-> "beer01", price |-> Rat(4, 1), category |-> Up(L(<<"d", "r", "i", "n", "k", "s">>), 1)],
                    [kind |-> "str", name |-> Ac(Up(G(<<"m", "p", "r", "i", "z", "o", "l", "a">>), 1), 6), id |-> "None", price |-> NoneNum, category |-> <<>>],
                    [kind |-> "dict", name |-> Ac(Up(G(<<"o", "y", "z", "o">>), 1), 2), id |-> "ouzo", price |-> Rat(3, 1), category |-> Up(L(<<"b", "a", "r">>), 1)],
                    [kind |-> "other", name |-> <<>>, id |-> "None", price |-> NoneNum, category |-> <<>>] >>]

MenuNoId ==
    [fmt |-> "dict", entries |-> <<>>,
     sections |-> <<
         [top_cat |-> Up(L(<<"d", "r", "i", "n", "k", "s">>), 1), is_list |-> TRUE,
           items |-> << [kind |-> "dict", name |-> Ac(Up(G(<<"o", "y", "z", "o">>), 1), 2), id |-> "None", price |-> Rat(3, 1), category |-> <<>>],
                      [kind |-> "str", name |-> Ac(Up(G(<<"m", "p", "r", "i", "z", "o", "l", "a">>), 1), 6), id |-> "None", price |-> NoneNum, category |-> <<>>] >>] >>]

MenuDup ==
    [fmt |-> "dict", entries |-> <<>>,
     sections |-> <<
         [top_cat |-> Up(L(<<"d", "r", "i", "n", "k", "s">>), 1), is_list |-> TRUE,
           items |-> << [kind |-> "dict", name |-> Ac(Up(G(<<"m", "y", "q", "o", "sf">>), 1), 2), id |-> "m1", price |-> Rat(4, 1), category |-> <<>>] >>],
         [top_cat |-> Up(L(<<"b", "e", "e", "r", "s">>), 1), is_list |-> TRUE,
           items |-> << [kind |-> "dict", name |-> G(<<"m", "y", "q", "o", "sf">>), id |-> "m2", price |-> Rat(5, 1), category |-> <<>>] >>],
         [top_cat |-> <<>>, is_list |-> TRUE,
           items |-> << [kind |-> "dict", name |-> Ac(Up(G(<<"r", "a", "k", "i">>), 1), 4), id |-> "u1", price |-> Rat(2, 1), category |-> <<>>] >>],
         [top_cat |-> Up(L(<<"e", "x", "t", "r", "a", "s">>), 1), is_list |-> FALSE, items |-> <<>>] >>]

MenuRaki ==
    [fmt |-> "dict", entries |-> <<>>,
     sections |-> <<
         [top_cat |-> Up(L(<<"d", "r", "i", "n", "k", "s">>), 1), is_list |-> TRUE,
           items |-> << [kind |-> "dict", name |-> Ac(Up(G(<<"r", "a", "k", "i">>), 1), 4), id |-> "r", price |-> Rat(2, 1), category |-> <<>>],
                      [kind |-> "dict", name |-> Ac(Up(G(<<"r", "a", "k", "i">>), 1), 4) \o SP \o P(<<"(">>) \o D(<<"2", "5", "0">>) \o P(<<")">>), id |-> "r250", price |-> Rat(5, 1), category |-> <<>>] >>] >>]

CuratedLines ==
    { D(<<"2">>) \o SP \o G(<<"m", "y", "q", "o", "sf">>),
      D(<<"2">>) \o L(<<"k", "g">>) \o SP \o G(<<"p", "a", "i", "d", "a", "k", "i", "a">>),
      D(<<"2">>) \o SP \o G(<<"p", "a", "i", "d", "a", "k", "i", "a">>),
      D(<<"2">>) \o SP \o G(<<"m", "y", "q", "o", "sf">>) \o SP \o P(<<"(">>) \o Ac(G(<<"c", "w", "r", "i", "sf">>), 4) \o SP \o Ac(G(<<"p", "a", "g", "o">>), 2) \o P(<<")">>),
      D(<<"1">>) \o SP \o G(<<"a", "g", "n", "w", "s", "t", "o">>) \o SP \o G(<<"p", "i", "a", "t", "o">>),
      Ac(Up(G(<<"m", "y", "q", "o", "sf">>), 1), 2),
      D(<<"5", "0", "0">>) \o L(<<"m", "l">>) \o SP \o G(<<"r", "a", "k", "i">>),
      D(<<"2">>) \o G(<<"l">>) \o SP \o G(<<"k", "r", "a", "s", "i">>) \o SP \o G(<<"l", "e", "y", "k", "o">>),
      G(<<"k", "r", "a", "s", "i">>) \o SP \o G(<<"l", "e", "y", "k", "o">>),
      D(<<"2">>) \o SP \o L(<<"k", "g">>) \o SP \o G(<<"p", "a", "i", "d", "a", "k", "i", "a">>),
      Ac(G(<<"m", "p", "r", "i", "z", "o", "l", "a">>), 6),
      G(<<"t", "o">>),
      D(<<"2">>) \o SP \o G(<<"m", "p", "y", "r", "e", "sf">>),
      Ac(G(<<"s", "a", "l", "a", "t", "a">>), 4),
      D(<<"0">>) \o SP \o G(<<"m", "y", "q", "o", "sf">>),
      D(<<"2">>) \o P(<<".">>) \o D(<<"5">>) \o L(<<"k", "g">>) \o SP \o G(<<"p", "a", "i", "d", "a", "k", "i", "a">>),
      G(<<"o", "y", "z", "o">>),
      D(<<"2">>) \o G(<<"k">>) \o SP \o G(<<"a", "a">>),
      G(<<"a", "a">>),
      D(<<"2">>) \o SP \o G(<<"k", "a">>),
      D(<<"2", "5", "0">>) \o L(<<"m", "l">>) \o SP \o G(<<"k", "a">>),
      D(<<"3">>) \o SP \o G(<<"r", "a", "k", "i">>),
      P(<<"(">>) \o D(<<"1">>) \o P(<<")">>),
      SP \o SP,
      <<>>,
      D(<<"2">>),
      G(<<"a">>) \o D(<<"2">>),
      G(<<"a", "r", "n", "i">>),
      D(<<"1">>) \o P(<<".">>) \o D(<<"5">>) \o SP \o G(<<"m", "y", "q", "o", "sf">>) }

\* ------------------------------------------------------------------------
\* Normalizer under test: every string over NormChars up to MaxNormLen
\* ------------------------------------------------------------------------
NormChars ==
    { Ch("gr", "a"), [Ch("gr", "a") EXCEPT !.up = TRUE],
      [Ch("gr", "a") EXCEPT !.acc = "tonos"],
      [Ch("gr", "a") EXCEPT !.up = TRUE, !.acc = "tonos"],
      [Ch("gr", "s") EXCEPT !.up = TRUE],
      Ch("mark", "tonos"), Ch("dig", "2"), Ch("pun", "."), Ch("pun", "-"),
      Ch("sp", " "), Ch("sp", "NL"),
      Ch("pun", "_"), [Ch("gr", "Yhook") EXCEPT !.up = TRUE] }

StringsUpTo(chars, n) == UNION { [1..m -> chars] : m \in 0..n }

NormInputs == StringsUpTo(NormChars, MaxNormLen)

\* the module globals as one value
Globals ==
    [MENU_ITEMS |-> MENU_ITEMS, GRILL_SET |-> GRILL_SET,
     KITCHEN_SET |-> KITCHEN_SET, DRINK_SET |-> DRINK_SET]

GlobalsAre(g) ==
    /\ MENU_ITEMS = g.MENU_ITEMS
    /\ GRILL_SET = g.GRILL_SET
    /\ KITCHEN_SET = g.KITCHEN_SET
    /\ DRINK_SET = g.DRINK_SET

GlobalsBecome(g) ==
    /\ MENU_ITEMS' = g.MENU_ITEMS
    /\ GRILL_SET' = g.GRILL_SET
    /\ KITCHEN_SET' = g.KITCHEN_SET
    /\ DRINK_SET' = g.DRINK_SET

NoParse == Tuple4(NoneNum, NoneStr, NoneNum, <<>>)

NoResults == [exc |-> "none", results |-> <<>>]

NotCalled == [set |-> FALSE, out |-> <<>>]

NormIdle ==
    /\ norm_in = <<>>
    /\ norm_out = <<>>
    /\ norm_twice = <<>>
    /\ norm_match = NotCalled
    /\ norm_pc = "idle"

LineIdle ==
    /\ ln_text = <<>>
    /\ ln_menu = MenuAbsent
    /\ ln_pc = "idle"
    /\ ln_parse = NoParse
    /\ ln_cls = NoResults

MatchIdle ==
    /\ mt_item = <<>>
    /\ mt_unit = NoneStr
    /\ mt_qty = One
    /\ mt_pc = "idle"
    /\ mt_res = <<>>

NoMenuVersion == [some |-> FALSE, json_blob |-> MenuAbsent]

NoCall ==
    [set |-> FALSE, order_text |-> <<>>, override_rules |-> <<>>, latest_menu |-> MenuAbsent,
     loaded |-> MenuAbsent, classified |-> NoResults, unclassified_items |-> <<>>]

NoRuleList == [set |-> FALSE, limit |-> 0, rules |-> <<>>]

ServiceIdle ==
    /\ menu_json = MenuAbsent
    /\ db_menu = NoMenuVersion
    /\ loaded_menu = MenuAbsent
    /\ samples = <<>>
    /\ call = NoCall
    /\ ref = NoCall
    /\ rule_list = NoRuleList

InitNorm ==
    /\ norm_in \in NormInputs
    /\ norm_out = <<>>
    /\ norm_twice = <<>>
    /\ norm_match = NotCalled
    /\ norm_pc = "start"
    /\ GlobalsAre(BaseGlobals)
    /\ LineIdle
    /\ MatchIdle
    /\ ServiceIdle
    /\ BackIdle
    /\ AsyncIdle

NormalizeOnce ==
    /\ norm_pc = "start"
    /\ norm_out' = _normalize_text_basic(norm_in)
    /\ norm_pc' = "once"
    /\ UNCHANGED <<norm_in, norm_twice, norm_match, nlpGlobals, lineVars, matchVars, svcVars, backVars, asyncVars>>

NormalizeAgain ==
    /\ norm_pc = "once"
    /\ norm_twice' = _normalize_text_basic(norm_out)
    /\ norm_pc' = "twice"
    /\ UNCHANGED <<norm_in, norm_out, norm_match, nlpGlobals, lineVars, matchVars, svcVars, backVars, asyncVars>>

\* the normalizer of main.py applied to the same argument
NormalizeForMatch ==
    /\ ~norm_match.set
    /\ norm_match' = [set |-> TRUE, out |-> _normalize_text_for_match(norm_in)]
    /\ UNCHANGED <<norm_in, norm_out, norm_twice, norm_pc, nlpGlobals, lineVars, matchVars,
                   svcVars, backVars, asyncVars>>

NextNorm == NormalizeOnce \/ NormalizeAgain \/ NormalizeForMatch

vars == <<normVars, nlpGlobals, lineVars, matchVars, svcVars, backVars, asyncVars>>

SpecNorm == InitNorm /\ [][NextNorm]_vars

\* ------------------------------------------------------------------------
\* Parser and classifier under test: one text, one imported menu
\* ------------------------------------------------------------------------
\* menu.json is {} / [] / a file json.load fails on
MenuEmptyDict == [fmt |-> "dict", sections |-> <<>>, entries |-> <<>>]

MenuEmptyList == [fmt |-> "list", sections |-> <<>>, entries |-> <<>>]

MenuInvalid == [fmt |-> "invalid", sections |-> <<>>, entries |-> <<>>]

NoEntry == [kind |-> "other", name |-> <<>>, id |-> "None", price |-> NoneNum, category |-> <<>>]

\* {"Drinks": null, "Grill": [null, 3, {"id": "x"}]}
MenuJunk ==
    [fmt |-> "dict", entries |-> <<>>,
     sections |-> <<
         [top_cat |-> Up(L(<<"d", "r", "i", "n", "k", "s">>), 1), is_list |-> FALSE, items |-> <<>>],
         [top_cat |-> Up(L(<<"g", "r", "i", "l", "l">>), 1), is_list |-> TRUE,
           items |-> << NoEntry, NoEntry,
                      [kind |-> "dict", name |-> <<>>, id |-> "x", price |-> NoneNum, category |-> <<>>] >>] >>]

\* [null, {"price": 4.0}]
MenuJunkList ==
    [fmt |-> "list", sections |-> <<>>,
     entries |-> << NoEntry,
                    [kind |-> "dict", name |-> <<>>, id |-> "None", price |-> Rat(4, 1), category |-> <<>>] >>]

\* {"Drinks": [{"id": "beer01", "name": "Μύθος", "price": 4.0}, {"name": 5}]}
MenuBadName ==
    [fmt |-> "dict", entries |-> <<>>,
     sections |-> <<
         [top_cat |-> Up(L(<<"d", "r", "i", "n", "k", "s">>), 1), is_list |-> TRUE,
           items |-> << [kind |-> "dict", name |-> Ac(Up(G(<<"m", "y", "q", "o", "sf">>), 1), 2), id |-> "beer01", price |-> Rat(4, 1), category |-> <<>>],
                      [kind |-> "dictnum", name |-> D(<<"5">>), id |-> "None", price |-> NoneNum, category |-> <<>>] >>] >>]

\* the snapshots that are empty or malformed
BrokenMenus ==
    {MenuAbsent, MenuEmptyDict, MenuEmptyList, MenuInvalid, MenuJunk, MenuJunkList, MenuBadName}

AllMenus == {MenuAbsent, MenuSpec, MenuWine, MenuTiny, MenuLegacy, MenuNoId, MenuDup, MenuRaki}

LineChars ==
    { Ch("dig", "2"), Ch("gr", "k"), Ch("gr", "a"), Ch("sp", " "), Ch("sp", "NL"),
      LPAR, RPAR }

MultiLineTexts ==
    { D(<<"2">>) \o SP \o G(<<"m", "y", "q", "o", "sf">>) \o NL \o NL \o SP \o SP \o NL
        \o D(<<"2">>) \o L(<<"k", "g">>) \o SP \o G(<<"p", "a", "i", "d", "a", "k", "i", "a">>),
      NL \o SP \o Ac(Up(G(<<"m", "y", "q", "o", "sf">>), 1), 2) \o SP \o NL,
      G(<<"o", "y", "z", "o">>) \o NL \o D(<<"1">>) \o SP
        \o G(<<"a", "g", "n", "w", "s", "t", "o">>) \o SP \o G(<<"p", "i", "a", "t", "o">>),
      SP \o NL \o SP }

LineCases ==
    (StringsUpTo(LineChars, MaxLineLen) \X {MenuTiny, MenuAbsent})
        \cup (CuratedLines \X AllMenus)
        \cup (MultiLineTexts \X AllMenus)

InitLine ==
    /\ \E c \in LineCases :
          /\ ln_text = c[1]
          /\ ln_menu = c[2]
          /\ GlobalsAre(ImportModule(c[2]))
    /\ ln_pc = "start"
    /\ ln_parse = NoParse
    /\ ln_cls = NoResults
    /\ NormIdle
    /\ MatchIdle
    /\ ServiceIdle
    /\ BackIdle
    /\ AsyncIdle

ParseText ==
    /\ ln_pc = "start"
    /\ ln_parse' = _parse_quantity_and_units(ln_text)
    /\ ln_pc' = "parsed"
    /\ UNCHANGED <<ln_text, ln_menu, ln_cls, normVars, nlpGlobals, matchVars, svcVars, backVars, asyncVars>>

ClassifyText ==
    /\ ln_pc = "parsed"
    /\ ln_cls' = classify_order(Globals, ln_text)
    /\ ln_pc' = "classified"
    /\ UNCHANGED <<ln_text, ln_menu, ln_parse, normVars, nlpGlobals, matchVars, svcVars, backVars, asyncVars>>

NextLine == ParseText \/ ClassifyText

SpecLine == InitLine /\ [][NextLine]_vars

\* ------------------------------------------------------------------------
\* Order texts classified by a process that imported an empty or malformed
\* menu.json
\* ------------------------------------------------------------------------
SnapshotCases == (CuratedLines \cup MultiLineTexts) \X BrokenMenus

InitSnapshot ==
    /\ \E c \in SnapshotCases :
          /\ ln_text = c[1]
          /\ ln_menu = c[2]
          /\ GlobalsAre(ImportModule(c[2]))
    /\ ln_pc = "start"
    /\ ln_parse = NoParse
    /\ ln_cls = NoResults
    /\ NormIdle
    /\ MatchIdle
    /\ ServiceIdle
    /\ BackIdle
    /\ AsyncIdle

SpecSnapshot == InitSnapshot /\ [][NextLine]_vars

\* ------------------------------------------------------------------------
\* Matcher under test: one (item text, unit, quantity), one imported menu,
\* every acceptance threshold of Thresholds (tenths)
\* ------------------------------------------------------------------------
MAIN_THRESHOLD == 5

Thresholds == {0, THRESHOLD, MAIN_THRESHOLD, 10, 16}

ItemChars == { Ch("gr", "k"), Ch("gr", "a"), Ch("sp", " "), Ch("dig", "2") }

CuratedItems ==
    { G(<<"m", "y", "q", "o", "sf">>),
      G(<<"p", "a", "i", "d", "a", "k", "i", "a">>),
      G(<<"k", "r", "a", "s", "i">>) \o SP \o G(<<"l", "e", "y", "k", "o">>),
      G(<<"r", "a", "k", "i">>),
      Ac(G(<<"s", "a", "l", "a", "t", "a">>), 4),
      G(<<"a", "r", "n", "i", "s", "i", "a">>) \o SP \o G(<<"p", "a", "i", "d", "a", "k", "i", "a">>)
        \o SP \o G(<<"s", "c", "a", "r", "a", "sf">>) }

MatchUnits == { NoneStr, Some(L(<<"k", "g">>)), Some(G(<<"l">>)), Some(MlUnit) }

MatchQuantities == { One, Rat(250, 1) }

InitMatch ==
    /\ mt_item \in StringsUpTo(ItemChars, MaxItemLen) \cup CuratedItems
    /\ mt_unit \in MatchUnits
    /\ mt_qty \in MatchQuantities
    /\ \E m \in AllMenus : GlobalsAre(ImportModule(m))
    /\ mt_pc = "start"
    /\ mt_res = <<>>
    /\ NormIdle
    /\ LineIdle
    /\ ServiceIdle
    /\ BackIdle
    /\ AsyncIdle

MatchAtThresholds ==
    /\ mt_pc = "start"
    /\ mt_res' = [t \in Thresholds |-> FindMenuMatch(MENU_ITEMS, mt_item, mt_unit, mt_qty, t)]
    /\ mt_pc' = "matched"
    /\ UNCHANGED <<mt_item, mt_unit, mt_qty, normVars, nlpGlobals, lineVars, svcVars, backVars, asyncVars>>

NextMatch == MatchAtThresholds

SpecMatch == InitMatch /\ [][NextMatch]_vars

\* ------------------------------------------------------------------------
\* The service: the process with its module globals, the menu file, the
\* menu versions and corrections in the database, and the classification
\* requests (POST /order/preview, and the same steps of POST /order/)
\* ------------------------------------------------------------------------
ServiceMenus == {MenuSpec, MenuDup}

RawMythos == D(<<"2">>) \o SP \o Ac(Up(G(<<"m", "y", "q", "o", "sf">>), 1), 2)

ServiceTexts ==
    { D(<<"2">>) \o SP \o G(<<"m", "y", "q", "o", "sf">>),
      D(<<"2">>) \o L(<<"k", "g">>) \o SP \o G(<<"p", "a", "i", "d", "a", "k", "i", "a">>) \o NL \o NL
        \o D(<<"2">>) \o SP \o G(<<"m", "y", "q", "o", "sf">>) \o SP \o P(<<"(">>)
        \o Ac(G(<<"c", "w", "r", "i", "sf">>), 4) \o SP \o Ac(G(<<"p", "a", "g", "o">>), 2) \o P(<<")">>) }

CorrectionTexts == { RawMythos }

CorrectionIds == { "lamb_portion", "gone" }

\* get_latest_menu(db_session)
get_latest_menu == IF db_menu.some THEN db_menu.json_blob ELSE menu_json

Init ==
    /\ \E m \in ServiceMenus :
          /\ menu_json = m
          /\ loaded_menu = m
          /\ GlobalsAre(ImportModule(m))
    /\ db_menu = NoMenuVersion
    /\ samples = <<>>
    /\ call = NoCall
    /\ ref = NoCall
    /\ rule_list = NoRuleList
    /\ NormIdle
    /\ LineIdle
    /\ MatchIdle
    /\ BackIdle
    /\ AsyncIdle

\* the process is restarted, possibly with an edited menu.json: app.nlp is
\* imported anew
Restart(m) ==
    /\ menu_json' = m
    /\ GlobalsBecome(Reimport(Globals, m))
    /\ loaded_menu' = m
    /\ UNCHANGED <<db_menu, samples, call, ref, rule_list, normVars, lineVars, matchVars, backVars, asyncVars>>

\* POST /api/menu: a new MenuVersion is stored and the NLP cache refreshed;
\* a failing refresh is logged and the handler still succeeds
create_menu_version_endpoint(m, refreshed) ==
    /\ db_menu' = [some |-> TRUE, json_blob |-> m]
    /\ IF refreshed
       THEN GlobalsBecome(refresh_menu_items(m)) /\ loaded_menu' = m
       ELSE UNCHANGED <<nlpGlobals, loaded_menu>>
    /\ UNCHANGED <<menu_json, samples, call, ref, rule_list, normVars, lineVars, matchVars, backVars, asyncVars>>

\* POST /api/nlp/capture with a corrected item id
capture_sample(raw_text, corrected_item_id) ==
    /\ Len(samples) < MaxSamples
    /\ Strip(raw_text) # <<>>
    /\ samples' = <<[raw_text |-> Strip(raw_text),
                     corrected_menu_item_id |-> corrected_item_id]>> \o samples
    /\ UNCHANGED <<menu_json, db_menu, loaded_menu, call, ref, rule_list, nlpGlobals,
                   normVars, lineVars, matchVars, backVars, asyncVars>>

\* the rows with a correction (corrected_menu_item_id IS NOT NULL), as the
\* handlers query them
CorrectedSamples(samps) ==
    SelectSeq(samps, LAMBDA smp : smp.corrected_menu_item_id # "None")

\* POST /order/preview: latest menu, override rules, classification; keep
\* says whether the request is also remembered in ref
Unclassified(results) ==
    LET un == SelectSeq(results, LAMBDA r : ~r.menu_name.some)
    IN [i \in 1..Len(un) |-> un[i].text]

preview_order(order_text, keep) ==
    \E latest_menu \in {get_latest_menu} :
    \E override_rules \in {build_override_rules(CorrectedSamples(samples), <<>>)} :
    \E classified \in {classify_order_with_rules(Globals, order_text, override_rules)} :
    \E this \in {[set |-> TRUE, order_text |-> order_text, override_rules |-> override_rules,
                  latest_menu |-> latest_menu, loaded |-> loaded_menu,
                  classified |-> classified,
                  unclassified_items |-> Unclassified(classified.results)]} :
       /\ call' = this
       /\ ref' = IF keep THEN this ELSE ref
       /\ UNCHANGED <<menu_json, db_menu, loaded_menu, samples, rule_list, nlpGlobals,
                      normVars, lineVars, matchVars, backVars, asyncVars>>

Next ==
    \/ \E m \in ServiceMenus : Restart(m)
    \/ \E m \in ServiceMenus : \E refreshed \in BOOLEAN : create_menu_version_endpoint(m, refreshed)
    \/ \E t \in CorrectionTexts : \E id \in CorrectionIds : capture_sample(t, id)
    \/ \E t \in ServiceTexts : \E keep \in BOOLEAN : preview_order(t, keep)

Spec == Init /\ [][Next]_vars

\* ------------------------------------------------------------------------
\* The override rules: a table of correction rows, newest first, read by
\* GET /api/nlp/rules and by the classification requests
\* ------------------------------------------------------------------------
\* _build_menu_index(menu_dict)[item_id]["name"], NoneStr without an entry
RECURSIVE IndexedName(_, _, _)
IndexedName(entries, item_id, found) ==
    IF entries = <<>> THEN found
    ELSE IndexedName(Tail(entries), item_id,
             IF IsDict(Head(entries)) /\ Truthy(Head(entries).id)
                    /\ Head(entries).id = item_id
             THEN Some(Head(entries).name)
             ELSE found)

RECURSIVE IndexedNameOfSections(_, _, _)
IndexedNameOfSections(sections, item_id, found) ==
    IF sections = <<>> THEN found
    ELSE IndexedNameOfSections(Tail(sections), item_id,
             IF Head(sections).is_list
             THEN IndexedName(Head(sections).items, item_id, found)
             ELSE found)

_build_menu_index(menu_dict, item_id) ==
    IF menu_dict.fmt = "dict" THEN IndexedNameOfSections(menu_dict.sections, item_id, NoneStr)
    ELSE NoneStr

\* query.limit(limit)
Limit(rows, limit) == SubSeq(rows, 1, IF Len(rows) < limit THEN Len(rows) ELSE limit)

\* the loop of list_rules over the rows: rules_map holds the keys seen
RECURSIVE RuleResponses(_, _, _, _)
RuleResponses(rows, menu_dict, rules_map, rules) ==
    IF rows = <<>> THEN rules
    ELSE LET smp == Head(rows)
             key == _normalize_rule_key(smp.raw_text)
         IN IF key = <<>> \/ key \in rules_map
            THEN RuleResponses(Tail(rows), menu_dict, rules_map, rules)
            ELSE RuleResponses(Tail(rows), menu_dict, rules_map \cup {key},
                     Append(rules,
                            [raw_text |-> smp.raw_text,
                             corrected_item_id |-> smp.corrected_menu_item_id,
                             corrected_item_name |->
                                 _build_menu_index(menu_dict, smp.corrected_menu_item_id)]))

\* GET /api/nlp/rules?limit=
list_rules(limit) ==
    /\ rule_list' = [set |-> TRUE, limit |-> limit,
                     rules |-> RuleResponses(Limit(CorrectedSamples(samples), limit),
                                             get_latest_menu, {}, <<>>)]
    /\ UNCHANGED <<menu_json, db_menu, loaded_menu, samples, call, ref, nlpGlobals,
                   normVars, lineVars, matchVars, backVars, asyncVars>>

RuleTexts ==
    { RawMythos,
      D(<<"2">>) \o SP \o SP \o G(<<"m", "y", "q", "o", "sf">>) \o SP \o P(<<"(">>) \o G(<<"p", "a", "g", "o">>) \o P(<<")">>),
      G(<<"r", "a", "k", "i">>),
      P(<<"(">>) \o G(<<"p", "a", "g", "o">>) \o P(<<")">>) }

RuleIds == { "lamb_portion", "beer01", "None" }

RuleRows ==
    { [raw_text |-> t, corrected_menu_item_id |-> id] : t \in RuleTexts, id \in RuleIds }

RuleLimits == { 1, 200 }

InitRules ==
    /\ samples \in StringsUpTo(RuleRows, MaxRuleSamples)
    /\ menu_json = MenuSpec
    /\ loaded_menu = MenuSpec
    /\ GlobalsAre(ImportModule(MenuSpec))
    /\ db_menu = NoMenuVersion
    /\ call = NoCall
    /\ ref = NoCall
    /\ rule_list = NoRuleList
    /\ NormIdle
    /\ LineIdle
    /\ MatchIdle
    /\ BackIdle
    /\ AsyncIdle

NextRules ==
    \/ \E limit \in RuleLimits : list_rules(limit)
    \/ preview_order(D(<<"2">>) \o SP \o G(<<"m", "y", "q", "o", "sf">>), FALSE)

SpecRules == InitRules /\ [][NextRules]_vars

\* ------------------------------------------------------------------------
\* Properties of the parser, the matcher and classify_order
\* ------------------------------------------------------------------------
Results == ln_cls.results

Classified1 == ln_pc = "classified"

\* the normalized item text of a classified line
LineNorm(text) == _normalize_text_basic(ParsedLine(text).item_text)

\* the entries of a menu.json snapshot
SnapshotEntries(menu_j) ==
    { menu_j.entries[i] : i \in 1..Len(menu_j.entries) }
        \cup UNION { { menu_j.sections[k].items[i] : i \in 1..Len(menu_j.sections[k].items) } :
                     k \in 1..Len(menu_j.sections) }

Matched(m) == m.menu_name.some

\* C5: raising the acceptance threshold never turns an unmatched input into
\* a matched one: whatever matches at a threshold matches at every lower one.
C5_ThresholdMonotone ==
    mt_pc = "matched" =>
        \A t1 \in Thresholds : \A t2 \in Thresholds :
            (t1 <= t2 /\ Matched(mt_res[t2])) =>
                /\ Matched(mt_res[t1])
                /\ (Truthy(mt_res[t2].menu_id) => Truthy(mt_res[t1].menu_id))

\* an input that matches at 0.3 and 0.5 and is rejected at 1.0
C5_Witness ==
    /\ mt_pc = "matched"
    /\ Matched(mt_res[THRESHOLD])
    /\ Matched(mt_res[MAIN_THRESHOLD])
    /\ ~Matched(mt_res[10])

\* the score the matcher gives entry k of the index for the input under test
EntryScore(k) ==
    ScoreEntry(_normalize_text_basic(mt_item), MENU_ITEMS[k].val.name, mt_unit, mt_qty)

\* entry k can be selected: it matches and its score is positive
Scores(k) == EntryScore(k).out = "score" /\ ScoreGt(EntryScore(k).score, ZeroScore)

TiedWith(j, k) ==
    /\ Scores(j)
    /\ ~ScoreGt(EntryScore(j).score, EntryScore(k).score)
    /\ ~ScoreGt(EntryScore(k).score, EntryScore(j).score)

\* C11: the matcher returns an entry with the maximum combined score over
\* all menu entries and, among the entries tied for the maximum, one with
\* the longest normalized menu name.
C11_BestScoreLongestName ==
    (mt_pc = "matched" /\ Matched(mt_res[THRESHOLD])) =>
        \E k \in 1..Len(MENU_ITEMS) :
            /\ MENU_ITEMS[k].val.name = mt_res[THRESHOLD].menu_name.s
            /\ Scores(k)
            /\ \A j \in 1..Len(MENU_ITEMS) :
                  Scores(j) => ~ScoreGt(EntryScore(j).score, EntryScore(k).score)
            /\ \A j \in 1..Len(MENU_ITEMS) :
                  TiedWith(j, k) => Len(MENU_ITEMS[j].key) <= Len(MENU_ITEMS[k].key)

\* the entries of a snapshot in the order the file lists them
RECURSIVE SectionEntries(_)
SectionEntries(sections) ==
    IF sections = <<>> THEN <<>>
    ELSE (IF Head(sections).is_list THEN Head(sections).items ELSE <<>>)
             \o SectionEntries(Tail(sections))

SnapshotOrder(menu_j) ==
    IF menu_j.fmt = "dict" THEN SectionEntries(menu_j.sections)
    ELSE IF menu_j.fmt = "list" THEN menu_j.entries
    ELSE <<>>

NamedAs(entry, nn) ==
    entry.kind # "other" /\ _normalize_text_basic(EntryName(entry)) = nn

\* the position of the first entry of the snapshot with normalized name nn
FirstSeen(menu_j, nn) ==
    LET es == SnapshotOrder(menu_j)
    IN CHOOSE i \in 1..Len(es) :
          NamedAs(es[i], nn) /\ \A j \in 1..(i - 1) : ~NamedAs(es[j], nn)

\* C13: every entry of the menu index is the first entry of the snapshot
\* with that normalized name (its name, id and price); a later duplicate
\* never replaces it.
C13_FirstSeenWins ==
    Classified1 =>
        \A k \in 1..Len(MENU_ITEMS) :
            LET first == SnapshotOrder(ln_menu)[FirstSeen(ln_menu, MENU_ITEMS[k].key)]
            IN /\ MENU_ITEMS[k].val.name = EntryName(first)
               /\ MENU_ITEMS[k].val.id = (IF first.kind = "dict" THEN first.id ELSE "None")
               /\ MENU_ITEMS[k].val.price = (IF first.kind = "dict" THEN first.price ELSE NoneNum)

WeightUnit(unit) == unit.some /\ unit.s \in KiloUnits

Paidakia == G(<<"p", "a", "i", "d", "a", "k", "i", "a">>)

WellFormed4(p) ==
    /\ DOMAIN p = {"exc", "quantity", "unit", "unit_multiplier", "item_text"}
    /\ (p.quantity.some => p.quantity.d > 0 /\ p.quantity.n >= 0)
    /\ (p.unit.some => p.quantity.some /\ p.unit.s \in UnitTokens)
    /\ (p.unit_multiplier.some => p.unit.some /\ p.unit_multiplier.d > 0)
    /\ p.item_text = Strip(p.item_text)

\* C6: the parser and classify_order never raise, whatever the string: the
\* parser returns a well-formed (quantity, unit, unit_multiplier, item_text)
\* and classify_order returns its list.
C6_NeverRaises ==
    /\ (ln_pc \in {"parsed", "classified"} =>
            ln_parse.exc = "none" /\ WellFormed4(ln_parse))
    /\ (Classified1 =>
            /\ ln_cls.exc = "none"
            /\ \A i \in 1..Len(Results) : Results[i].exc = "none")

\* a text that has a number without a unit and a parenthesis was parsed and
\* classified against a menu with an entry whose base name is empty
C6_Witness ==
    /\ Classified1
    /\ ln_parse.quantity.some
    /\ ~ln_parse.unit.some
    /\ \E i \in 1..Len(ln_text) : ln_text[i] = LPAR
    /\ ln_menu = MenuTiny
    /\ Len(Results) >= 1

HasInk(s) == \E i \in 1..Len(s) : ~IsSpace(s[i])

\* the stripped texts of the lines of s that hold a non-blank character,
\* read character by character (cur is the line read so far)
RECURSIVE LineTexts(_, _)
LineTexts(s, cur) ==
    IF s = <<>> THEN (IF HasInk(cur) THEN <<Strip(cur)>> ELSE <<>>)
    ELSE IF IsNewline(Head(s))
         THEN (IF HasInk(cur) THEN <<Strip(cur)>> ELSE <<>>) \o LineTexts(Tail(s), <<>>)
         ELSE LineTexts(Tail(s), Append(cur, Head(s)))

\* C7: classify_order returns exactly one record per non-blank input line,
\* in input order; empty and whitespace-only lines give no record.
C7_OneRecordPerLine ==
    Classified1 =>
        [i \in 1..Len(Results) |-> Results[i].text] = LineTexts(ln_text, <<>>)

\* a text of two order lines separated by an empty and a blank line
C7_Witness ==
    /\ Classified1
    /\ Len(Results) = 2
    /\ Len(SplitLines(ln_text)) >= 4

\* the category of an unmatched line agrees with the stem hits grill and
\* drink of its normalized text
FallbackAgrees(r, grill, drink) ==
    /\ r.category # <<>>
    /\ (~Matched(r) =>
           /\ r.category \in {CatGrill, CatDrinks, CatKitchen}
           /\ (r.category = CatGrill <=> grill)
           /\ (r.category = CatDrinks <=> (~grill /\ drink))
           /\ (r.category = CatKitchen <=> (~grill /\ ~drink)))

StemHit(norm, stem_set) ==
    norm # <<>> /\ \E st \in stem_set : IsSubstr(st, norm) \/ IsSubstr(norm, st)

StemHits(norm) == [grill |-> StemHit(norm, GRILL_SET), drink |-> StemHit(norm, DRINK_SET)]

FallbackOf(r, hits) == FallbackAgrees(r, hits.grill, hits.drink)

Notes ==
    { SP \o P(<<"(">>) \o G(<<"p", "a", "g", "o">>) \o P(<<")">>),
      P(<<"(">>) \o D(<<"2">>) \o G(<<"k">>) \o P(<<")">>),
      SP \o SP \o P(<<"(">>) \o P(<<")">>) }

SameButText(r, w) ==
    /\ w.exc = r.exc
    /\ w.category = r.category
    /\ w.menu_id = r.menu_id
    /\ w.menu_name = r.menu_name
    /\ w.price = r.price
    /\ w.multiplier = r.multiplier

\* C21: a line with a parenthetical note appended is classified like the
\* line without the note (category, menu id, menu name, price, multiplier)
\* and its record keeps the text as written, note included.
C21_NoteChangesOnlyText ==
    Classified1 =>
        \A i \in 1..Len(Results) : \A note \in Notes :
            LET w == ClassifyLine(Globals, Results[i].text \o note)
            IN /\ w.text = Results[i].text \o note
               /\ SameButText(Results[i], w)

\* every "(" of the text has a ")" after it
ParensClosed(t) ==
    \A i \in 1..Len(t) : t[i] = LPAR => \E j \in (i + 1)..Len(t) : t[j] = RPAR

\* C21 (amended): for a line in which every "(" is closed, appending a
\* parenthetical note changes only the preserved text.
C21_NoteAfterClosedParens ==
    Classified1 =>
        \A i \in 1..Len(Results) : \A note \in Notes :
            ParensClosed(Results[i].text) =>
                LET w == ClassifyLine(Globals, Results[i].text \o note)
                IN /\ w.text = Results[i].text \o note
                   /\ SameButText(Results[i], w)

\* "2 μυθος" matched to an entry, and the same line with a note after it
C21_Witness ==
    /\ Classified1
    /\ Len(Results) = 1
    /\ Results[1].menu_id = "beer01"
    /\ \A k \in 1..Len(Results[1].text) : Results[1].text[k] # LPAR
    /\ \E note \in Notes :
          /\ ClassifyLine(Globals, Results[1].text \o note).menu_id = "beer01"
          /\ ClassifyLine(Globals, Results[1].text \o note).text # Results[1].text

\* C16: with an empty or malformed menu snapshot classify_order does not
\* fail: it returns its records, every record has no menu id, and its
\* category is the one the stem-keyword fallback gives the line.
C16_BrokenMenuDegrades ==
    (Classified1 /\ ln_menu \in BrokenMenus) =>
        /\ ln_cls.exc = "none"
        /\ \A i \in 1..Len(Results) :
              /\ Results[i].exc = "none"
              /\ Results[i].menu_id = "None"
              /\ ~Matched(Results[i])
              /\ FallbackOf(Results[i], StemHits(LineNorm(Results[i].text)))

BothHit(hits) == hits.grill /\ hits.drink

C9_CategoryVerbatim ==
    Classified1 =>
        \A i \in 1..Len(Results) :
            \A e \in SnapshotEntries(ln_menu) :
                (Truthy(Results[i].menu_id) /\ e.id = Results[i].menu_id /\ e.category # <<>>)
                    => Results[i].category = e.category

\* C10 as stated: a line whose menu_id is null has a null menu_name and a
\* null price.
C10_NullIdMeansUnresolved ==
    Classified1 =>
        \A i \in 1..Len(Results) :
            Results[i].menu_id = "None" =>
                ~Results[i].menu_name.some /\ ~Results[i].price.some

\* C10 amended: a line whose menu_name is null has a null menu_id and a null
\* price; a line with a null menu_id and a menu_name was matched to a menu
\* entry that has no id and carries that entry's name and price.
C10_NullNameMeansUnresolved ==
    Classified1 =>
        \A i \in 1..Len(Results) :
            LET r == Results[i]
            IN /\ (~r.menu_name.some => r.menu_id = "None" /\ ~r.price.some)
               /\ ((r.menu_id = "None" /\ r.menu_name.some) =>
                      \E k \in 1..Len(MENU_ITEMS) :
                          /\ MENU_ITEMS[k].val.id = "None"
                          /\ MENU_ITEMS[k].val.name = r.menu_name.s
                          /\ MENU_ITEMS[k].val.price = r.price)

\* an order with an unmatched line and a line matched to a priced entry
\* that has no id
C10_Witness ==
    /\ Classified1
    /\ \E i \in 1..Len(Results) :
          ~Results[i].menu_name.some /\ Results[i].menu_id = "None"
    /\ \E j \in 1..Len(Results) :
          Results[j].menu_id = "None" /\ Results[j].menu_name.some /\ Results[j].price.some

\* ------------------------------------------------------------------------
\* Properties of the quantity and unit parser
\* The shape of a line is read off its characters, independently of the
\* parser: t is the stripped text.
\* ------------------------------------------------------------------------
Dot == Ch("pun", ".")

IsDigits(s) == s # <<>> /\ \A i \in 1..Len(s) : IsDigit(s[i])

\* digits, or digits "." digits
IsNumberText(n) ==
    \/ IsDigits(n)
    \/ \E k \in 2..(Len(n) - 1) :
          /\ n[k] = Dot
          /\ IsDigits(SubSeq(n, 1, k - 1))
          /\ IsDigits(SubSeq(n, k + 1, Len(n)))

NumberValue(n) ==
    LET k == IndexOf(n, Dot, 1)
    IN IF k = 0 THEN FloatOf(n, <<>>)
       ELSE FloatOf(SubSeq(n, 1, k - 1), SubSeq(n, k + 1, Len(n)))

OneLine(t) == \A i \in 1..Len(t) : ~IsNewline(t[i])

NoNumber(t) == t = <<>> \/ ~IsDigit(t[1])

\* t is <number t[1..i]><unit t[i+1..j]><blank>...
GluedAt(t, i, j) ==
    /\ 1 <= i /\ i < j /\ j < Len(t)
    /\ OneLine(t)
    /\ IsNumberText(SubSeq(t, 1, i))
    /\ Lower(SubSeq(t, i + 1, j)) \in UnitTokens
    /\ IsSpace(t[j + 1])

\* t is <number t[1..i]><blanks t[i+1..j]><unit t[j+1..k]><blank>...
SpacedAt(t, i, j, k) ==
    /\ 1 <= i /\ i < j /\ j < k /\ k < Len(t)
    /\ OneLine(t)
    /\ IsNumberText(SubSeq(t, 1, i))
    /\ \A x \in (i + 1)..j : IsSpace(t[x])
    /\ Lower(SubSeq(t, j + 1, k)) \in UnitTokens
    /\ IsSpace(t[k + 1])

\* t is <number t[1..i]><blank>...
PlainAt(t, i) ==
    /\ 1 <= i /\ i < Len(t)
    /\ OneLine(t)
    /\ IsNumberText(SubSeq(t, 1, i))
    /\ IsSpace(t[i + 1])

Parsed1 == ln_pc \in {"parsed", "classified"}

ParsedText == Strip(ln_text)

HasParen(t) == \E i \in 1..Len(t) : t[i] \in {LPAR, RPAR}

C18_UnitMustBeGlued ==
    Parsed1 =>
        /\ \A i \in 1..Len(ParsedText) : \A j \in 1..Len(ParsedText) :
              GluedAt(ParsedText, i, j) =>
                  /\ ln_parse.quantity = NumberValue(SubSeq(ParsedText, 1, i))
                  /\ ln_parse.unit = Some(Lower(SubSeq(ParsedText, i + 1, j)))
                  /\ ln_parse.item_text = Strip(SubSeq(ParsedText, j + 1, Len(ParsedText)))
        /\ \A i \in 1..Len(ParsedText) : \A j \in 1..Len(ParsedText) :
              \A k \in 1..Len(ParsedText) :
                  SpacedAt(ParsedText, i, j, k) =>
                      ln_parse = Tuple4(NumberValue(SubSeq(ParsedText, 1, i)), NoneStr, NoneNum,
                                        SubSeq(ParsedText, j + 1, Len(ParsedText)))

\* "2 kg ..." was parsed: the count 2, no unit, the item text starts with kg
C18_Witness ==
    /\ Parsed1
    /\ \E i \in 1..Len(ParsedText) : \E j \in 1..Len(ParsedText) :
          \E k \in 1..Len(ParsedText) : SpacedAt(ParsedText, i, j, k)
    /\ ln_parse.quantity = Rat(2, 1)
    /\ ~ln_parse.unit.some
    /\ StartsWith(ln_parse.item_text, L(<<"k", "g">>))

SameInputs(a, b) ==
    /\ a.order_text = b.order_text
    /\ a.override_rules = b.override_rules
    /\ a.loaded = b.loaded

OverrideTarget(menu_j, override_rules, text) ==
    LET key == _normalize_rule_key(text)
        k == DictFind(override_rules, key, 1)
    IN IF k # 0 /\ \E e \in SnapshotEntries(menu_j) : e.id = override_rules[k].val
       THEN override_rules[k].val
       ELSE "None"

\* C2: a line whose normalized text has an override whose target id is in
\* the current menu gets that id, whatever the fuzzy matcher would choose.
C2_OverridePrecedence ==
    call.set =>
        \A i \in 1..Len(call.classified.results) :
            LET r == call.classified.results[i]
                target == OverrideTarget(call.loaded, call.override_rules, r.text)
            IN target # "None" => r.menu_id = target

\* a line the override sends to an entry other than the one the matcher
\* alone picks for it
C2_Witness ==
    /\ call.set
    /\ \E i \in 1..Len(call.classified.results) :
          LET r == call.classified.results[i]
              target == OverrideTarget(call.loaded, call.override_rules, r.text)
              fuzzy == ClassifyLine(ImportModule(call.loaded), r.text)
          IN /\ target # "None"
             /\ r.menu_id = target
             /\ Truthy(fuzzy.menu_id)
             /\ fuzzy.menu_id # target

\* row i of the table carries a correction and a non-empty normalized key
Corrects(i) ==
    /\ samples[i].corrected_menu_item_id # "None"
    /\ _normalize_rule_key(samples[i].raw_text) # <<>>

\* row i is the most recent correction of its normalized key
MostRecent(i) ==
    /\ Corrects(i)
    /\ \A j \in 1..(i - 1) :
          Corrects(j) =>
              _normalize_rule_key(samples[j].raw_text) # _normalize_rule_key(samples[i].raw_text)

\* C14: with the correction rows ordered most-recent-first, the override map
\* of a request has exactly one entry per normalized key of the rows, and the
\* entry holds the corrected id of the most recent row with that key; the
\* rules listed by GET /api/nlp/rules (no row cut off by the limit) are the
\* same rows.
C14_MostRecentPerKey ==
    /\ call.set =>
          /\ \A k \in 1..Len(call.override_rules) :
                \E i \in 1..Len(samples) :
                    /\ MostRecent(i)
                    /\ call.override_rules[k].key = _normalize_rule_key(samples[i].raw_text)
                    /\ call.override_rules[k].val = samples[i].corrected_menu_item_id
          /\ \A i \in 1..Len(samples) :
                Corrects(i) =>
                    DictFind(call.override_rules, _normalize_rule_key(samples[i].raw_text), 1) # 0
          /\ \A k \in 1..Len(call.override_rules) : \A l \in 1..Len(call.override_rules) :
                call.override_rules[k].key = call.override_rules[l].key => k = l
    /\ (rule_list.set /\ rule_list.limit >= Len(samples)) =>
          /\ Len(rule_list.rules) = Cardinality({ i \in 1..Len(samples) : MostRecent(i) })
          /\ \A k \in 1..Len(rule_list.rules) :
                \E i \in 1..Len(samples) :
                    /\ MostRecent(i)
                    /\ rule_list.rules[k].raw_text = samples[i].raw_text
                    /\ rule_list.rules[k].corrected_item_id = samples[i].corrected_menu_item_id

\* two corrections of the same normalized key with different ids, the older
\* one written differently: the map holds the id of the newer one
C14_Witness ==
    /\ call.set
    /\ rule_list.set
    /\ \E i \in 1..Len(samples) : \E j \in 1..Len(samples) :
          /\ i < j
          /\ MostRecent(i)
          /\ Corrects(j)
          /\ _normalize_rule_key(samples[j].raw_text) = _normalize_rule_key(samples[i].raw_text)
          /\ samples[j].raw_text # samples[i].raw_text
          /\ samples[j].corrected_menu_item_id # samples[i].corrected_menu_item_id
          /\ Len(call.override_rules) = 1
          /\ call.override_rules[1].val = samples[i].corrected_menu_item_id
          /\ Len(rule_list.rules) = 1

\* the line has a rule whose target id is no entry of the menu snapshot
DanglingOverride(menu_j, override_rules, text) ==
    LET k == DictFind(override_rules, _normalize_rule_key(text), 1)
    IN /\ k # 0
       /\ Truthy(override_rules[k].val)
       /\ \A e \in SnapshotEntries(menu_j) : e.id # override_rules[k].val

\* C15: a line whose override points to a menu id that is not in the current
\* menu is classified without error, and its record is the one fuzzy
\* matching alone gives the line.
C15_DanglingOverrideIgnored ==
    call.set =>
        /\ (\E i \in 1..Len(OrderLines(call.order_text)) :
               DanglingOverride(call.loaded, call.override_rules,
                                OrderLines(call.order_text)[i]))
              => call.classified.exc = "none"
        /\ \A i \in 1..Len(call.classified.results) :
              LET r == call.classified.results[i]
              IN DanglingOverride(call.loaded, call.override_rules, r.text) =>
                    /\ r.exc = "none"
                    /\ r = ClassifyLine(ImportModule(call.loaded), r.text)

\* "2 μυθος" with a correction to an id the menu does not have: the line is
\* matched by the fuzzy matcher
C15_Witness ==
    /\ call.set
    /\ call.classified.exc = "none"
    /\ \E i \in 1..Len(call.classified.results) :
          LET r == call.classified.results[i]
          IN /\ DanglingOverride(call.loaded, call.override_rules, r.text)
             /\ call.override_rules[1].val = "gone"
             /\ r.menu_id = "beer01"

\* C3: a classification request is answered from its own menu snapshot: the
\* response equals the classification of the order text against an index
\* built from the latest menu the request read, whatever index other
\* requests and loads left behind.
C3_OwnSnapshot ==
    call.set =>
        call.classified =
            classify_order_with_rules(ImportModule(call.latest_menu), call.order_text,
                                      call.override_rules)

\* a lowercase unaccented letter or a digit, or the blank
CleanChar(c) == (IsAlnum(c) /\ ~c.up /\ c.acc = "none") \/ c = Ch("sp", " ")

Clean(out) ==
    /\ \A i \in 1..Len(out) : CleanChar(out[i])
    /\ out # <<>> => ~IsSpace(out[1]) /\ ~IsSpace(out[Len(out)])
    /\ \A i \in 1..(Len(out) - 1) : ~(IsSpace(out[i]) /\ IsSpace(out[i + 1]))

\* C22: the output of the normalizer (nlp._normalize_text_basic and
\* main._normalize_text_for_match) holds only lowercase unaccented
\* alphanumeric characters and single spaces: no punctuation, no accent, no
\* uppercase letter, no leading or trailing space, no two spaces in a row.
C22_OnlyLowerAlnumAndSingleSpaces ==
    /\ norm_pc # "start" => Clean(norm_out)
    /\ norm_match.set => Clean(norm_match.out)

\* C4: normalization is idempotent: normalizing the normalizer's output
\* returns that output unchanged.
C4_NormalizeIdempotent == norm_pc = "twice" => norm_twice = norm_out

\* a string with case, accent, punctuation and blanks was normalized twice
C4_Witness ==
    /\ norm_pc = "twice"
    /\ norm_out # norm_in
    /\ norm_out # <<>>
    /\ \E i \in 1..Len(norm_in) : norm_in[i].k = "pun"
    /\ \E i \in 1..Len(norm_in) : norm_in[i].k = "sp"

(***************************************************************************)
(* The Storage interface (backend/app/storage/base.py) and its three       *)
(* implementations.  A table id is an integer, an item id (uuid4) a fresh  *)
(* integer, a time an integer number of seconds.  An order (item) is the   *)
(* dict [id, table, text, category, status, created_at]; table metadata is *)
(* the dict [people, bread].  A method is an operator from the storage     *)
(* object (and the arguments) to [ret, st, raised]: the value returned,    *)
(* the storage object afterwards and the exception raised ("None" if       *)
(* none).  An Optional result is a sequence of length 0 or 1.              *)
(***************************************************************************)
Tables == {1, 2}

Statuses == {"pending", "done", "cancelled"}

DefaultMeta == [people |-> "None", bread |-> FALSE]

Metas == {DefaultMeta, [people |-> "4", bread |-> TRUE], [people |-> "2", bread |-> FALSE]}

EmptyDict == [k \in {} |-> k]

Put(f, k, v) == [x \in (DOMAIN f) \cup {k} |-> IF x = k THEN v ELSE f[x]]

Del(f, k) == [x \in (DOMAIN f) \ {k} |-> f[x]]

Returns(ret, st) == [ret |-> ret, st |-> st, raised |-> "None"]

Raises(exc, st) == [ret |-> exc, st |-> st, raised |-> exc]

RECURSIVE Sorted(_)
Sorted(S) ==
    IF S = {} THEN <<>>
    ELSE LET m == CHOOSE x \in S : \A y \in S : x <= y
         IN <<m>> \o Sorted(S \ {m})

\* index of the first element of s that satisfies Test, 0 if there is none
FirstIndex(s, Test(_)) ==
    IF \E i \in 1..Len(s) : Test(s[i])
    THEN CHOOSE i \in 1..Len(s) : Test(s[i]) /\ \A j \in 1..(i - 1) : ~Test(s[j])
    ELSE 0

RemoveAt(s, i) == SubSeq(s, 1, i - 1) \o SubSeq(s, i + 1, Len(s))

Range(s) == {s[i] : i \in 1..Len(s)}

(*************************** InMemoryStorage ******************************)
InMemoryStorage == [impl |-> "inmemory", _orders_by_table |-> EmptyDict,
                    _table_meta |-> EmptyDict]

\* dict.get(table_id, [])
OrdersGet(st, table_id) ==
    IF table_id \in DOMAIN st._orders_by_table THEN st._orders_by_table[table_id] ELSE <<>>

\* defaultdict.__getitem__: a missing key is inserted with the default
InMemoryStorage_get_table(st, table_id) ==
    LET meta == IF table_id \in DOMAIN st._table_meta THEN st._table_meta
                ELSE Put(st._table_meta, table_id, DefaultMeta)
    IN Returns(meta[table_id], [st EXCEPT !._table_meta = meta])

InMemoryStorage_set_table(st, table_id, data) ==
    Returns("None", [st EXCEPT !._table_meta = Put(@, table_id, data)])

InMemoryStorage_delete_table_keeping_meta(st, table_id) ==
    Returns("None", [st EXCEPT !._orders_by_table = Del(@, table_id)])

InMemoryStorage_delete_table(st, table_id) ==
    Returns("None", [st EXCEPT !._orders_by_table = Del(@, table_id),
                               !._table_meta = Del(@, table_id)])

InMemoryStorage_list_tables(st) ==
    Returns(Sorted((DOMAIN st._orders_by_table) \cup (DOMAIN st._table_meta)), st)

InMemoryStorage_table_exists(st, table_id) ==
    Returns(table_id \in DOMAIN st._orders_by_table \/ table_id \in DOMAIN st._table_meta, st)

InMemoryStorage_add_order(st, table_id, order) ==
    Returns("None", [st EXCEPT !._orders_by_table =
                                  Put(@, table_id, Append(OrdersGet(st, table_id), order))])

InMemoryStorage_get_orders(st, table_id) ==
    LET orders == IF table_id \in DOMAIN st._orders_by_table THEN st._orders_by_table
                  ELSE Put(st._orders_by_table, table_id, <<>>)
    IN Returns(orders[table_id], [st EXCEPT !._orders_by_table = orders])

InMemoryStorage_update_order_status(st, table_id, item_id, status) ==
    LET orders == OrdersGet(st, table_id)
        i == FirstIndex(orders, LAMBDA o : o.id = item_id)
    IN IF i = 0 THEN Returns(FALSE, st)
       ELSE Returns(TRUE, [st EXCEPT !._orders_by_table[table_id][i].status = status])

InMemoryStorage_delete_order(st, table_id, item_id) ==
    LET orders == OrdersGet(st, table_id)
        i == FirstIndex(orders, LAMBDA o : o.id = item_id)
    IN IF i = 0 THEN Returns(FALSE, st)
       ELSE Returns(TRUE, [st EXCEPT !._orders_by_table[table_id] = RemoveAt(orders, i)])

InMemoryStorage_get_order_by_id(st, table_id, item_id) ==
    LET orders == OrdersGet(st, table_id)
        i == FirstIndex(orders, LAMBDA o : o.id = item_id)
    IN Returns(IF i = 0 THEN <<>> ELSE <<orders[i]>>, st)

\* with older_than_seconds > 0 the cutoff is the current time itself:
\* older_than_seconds is not subtracted
InMemoryStorage_purge_done_orders(st, table_id, older_than_seconds, utcnow) ==
    LET orders == OrdersGet(st, table_id)
        cutoff_time == utcnow
        kept == IF older_than_seconds <= 0
                THEN SelectSeq(orders, LAMBDA o : o.status = "pending")
                ELSE SelectSeq(orders, LAMBDA o : o.status = "pending"
                                                  \/ o.created_at > cutoff_time)
    IN Returns(Len(orders) - Len(kept),
               [st EXCEPT !._orders_by_table = Put(@, table_id, kept)])

(***************************** SQLiteStorage ******************************)
\* orders: the rows of OrderModel in insertion order; table_meta: the rows
\* of TableMetaModel by table_id (unique)
SQLiteStorage == [impl |-> "sqlite", orders |-> <<>>, table_meta |-> EmptyDict]

\* OrderModel.to_dict
OrderModel_to_dict(row) ==
    [id |-> row.item_id, table |-> row.table_id, text |-> row.text,
     category |-> row.category, status |-> row.status, created_at |-> row.created_at]

RowsOfTable(st, table_id) == SelectSeq(st.orders, LAMBDA row : row.table_id = table_id)

SQLiteStorage_get_table(st, table_id) ==
    Returns(IF table_id \in DOMAIN st.table_meta THEN st.table_meta[table_id] ELSE DefaultMeta,
            st)

SQLiteStorage_set_table(st, table_id, data) ==
    Returns("None", [st EXCEPT !.table_meta =
                                  Put(@, table_id, [people |-> data.people, bread |-> data.bread])])

SQLiteStorage_delete_table(st, table_id) ==
    Returns("None", [st EXCEPT !.orders = SelectSeq(@, LAMBDA row : row.table_id # table_id),
                               !.table_meta = Del(@, table_id)])

SQLiteStorage_list_tables(st) ==
    Returns(Sorted((DOMAIN st.table_meta) \cup {row.table_id : row \in Range(st.orders)}), st)

\* scalar_one_or_none() raises when the query yields more than one row
SQLiteStorage_table_exists(st, table_id) ==
    IF Len(RowsOfTable(st, table_id)) > 1 THEN Raises("MultipleResultsFound", st)
    ELSE Returns(table_id \in DOMAIN st.table_meta \/ RowsOfTable(st, table_id) # <<>>, st)

SQLiteStorage_add_order(st, table_id, order) ==
    IF \E row \in Range(st.orders) : row.item_id = order.id
    THEN Raises("IntegrityError", st)
    ELSE Returns("None", [st EXCEPT !.orders =
                    Append(@, [table_id |-> table_id, item_id |-> order.id, text |-> order.text,
                               category |-> order.category, status |-> order.status,
                               created_at |-> order.created_at])])

SQLiteStorage_get_orders(st, table_id) ==
    LET rows == RowsOfTable(st, table_id)
    IN Returns([i \in 1..Len(rows) |-> OrderModel_to_dict(rows[i])], st)

\* the three lookups select on item_id alone: table_id is not used
SQLiteStorage_update_order_status(st, table_id, item_id, status) ==
    LET i == FirstIndex(st.orders, LAMBDA row : row.item_id = item_id)
    IN IF i = 0 THEN Returns(FALSE, st)
       ELSE Returns(TRUE, [st EXCEPT !.orders[i].status = status])

SQLiteStorage_delete_order(st, table_id, item_id) ==
    LET i == FirstIndex(st.orders, LAMBDA row : row.item_id = item_id)
    IN IF i = 0 THEN Returns(FALSE, st)
       ELSE Returns(TRUE, [st EXCEPT !.orders = RemoveAt(@, i)])

SQLiteStorage_get_order_by_id(st, table_id, item_id) ==
    LET i == FirstIndex(st.orders, LAMBDA row : row.item_id = item_id)
    IN Returns(IF i = 0 THEN <<>> ELSE <<OrderModel_to_dict(st.orders[i])>>, st)

SQLiteStorage_purge_done_only(st, table_id, older_than_seconds, utcnow) ==
    LET cutoff == utcnow - older_than_seconds
        Purged(row) == /\ row.table_id = table_id
                       /\ row.status = "done"
                       /\ older_than_seconds > 0 => row.created_at < cutoff
        kept == SelectSeq(st.orders, LAMBDA row : ~Purged(row))
    IN Returns(Len(st.orders) - Len(kept), [st EXCEPT !.orders = kept])

SQLiteStorage_purge_done_orders(st, table_id, older_than_seconds, utcnow) ==
    LET cutoff == utcnow - older_than_seconds
        Purged(row) == /\ row.table_id = table_id
                       /\ row.status \in {"done", "cancelled"}
                       /\ older_than_seconds > 0 => row.created_at < cutoff
        kept == SelectSeq(st.orders, LAMBDA row : ~Purged(row))
    IN Returns(Len(st.orders) - Len(kept), [st EXCEPT !.orders = kept])

(*************************** SQLAlchemyStorage ****************************)
\* table_sessions, orders, order_items, receipts: the rows of TableSession,
\* Order, OrderItem and Receipt in insertion order (a TableSession's id is
\* its position); _uuid_to_db_id: the in-memory map from item uuid to
\* OrderItem.id
SQLAlchemyStorage ==
    [impl |-> "sqlalchemy", table_sessions |-> <<>>, orders |-> <<>>, order_items |-> <<>>,
     receipts |-> <<>>, _uuid_to_db_id |-> EmptyDict]

\* ids of the open sessions of a table (closed_at IS NULL)
OpenSessions(st, table_id) ==
    {i \in 1..Len(st.table_sessions) :
        st.table_sessions[i].table_label = table_id /\ ~st.table_sessions[i].closed}

\* INTEGER PRIMARY KEY: one more than the largest id in the table
NextRowId(rows) == IF rows = <<>> THEN 1
                   ELSE 1 + (CHOOSE m \in {r.id : r \in Range(rows)} :
                                \A r \in Range(rows) : r.id <= m)

_get_or_create_table_session(st, table_id) ==
    IF Cardinality(OpenSessions(st, table_id)) > 1 THEN Raises("MultipleResultsFound", st)
    ELSE IF OpenSessions(st, table_id) # {}
    THEN Returns(CHOOSE i \in OpenSessions(st, table_id) : TRUE, st)
    ELSE Returns(Len(st.table_sessions) + 1,
                 [st EXCEPT !.table_sessions =
                               Append(@, [table_label |-> table_id, closed |-> FALSE])])

\* people and bread are not stored: both branches return the default
SQLAlchemyStorage_get_table(st, table_id) ==
    IF Cardinality(OpenSessions(st, table_id)) > 1 THEN Raises("MultipleResultsFound", st)
    ELSE Returns(DefaultMeta, st)

SQLAlchemyStorage_set_table(st, table_id, data) ==
    LET ts == _get_or_create_table_session(st, table_id)
    IN IF ts.raised # "None" THEN ts ELSE Returns("None", ts.st)

\* closes the open sessions and writes one receipt per session that has an
\* order and no receipt yet; returns the id of the last receipt, if any
SQLAlchemyStorage_delete_table(st, table_id) ==
    LET open == OpenSessions(st, table_id)
        closed == [i \in 1..Len(st.table_sessions) |->
                     IF i \in open THEN [st.table_sessions[i] EXCEPT !.closed = TRUE]
                     ELSE st.table_sessions[i]]
        primary == {o.id : o \in {o \in Range(st.orders) :
                       /\ o.table_session_id \in open
                       /\ \A p \in Range(st.orders) :
                             p.table_session_id = o.table_session_id => o.id <= p.id}}
        fresh == Sorted({p \in primary : \A r \in Range(st.receipts) : r.order_id # p})
        receipts == st.receipts \o [i \in 1..Len(fresh) |-> [order_id |-> fresh[i]]]
        last_primary == IF primary = {} THEN 0
                        ELSE CHOOSE p \in primary : \A q \in primary : q <= p
        receipt_id == IF primary = {} THEN <<>>
                      ELSE <<CHOOSE i \in 1..Len(receipts) : receipts[i].order_id = last_primary>>
    IN Returns(receipt_id, [st EXCEPT !.table_sessions = closed, !.receipts = receipts])

SQLAlchemyStorage_list_tables(st) ==
    Returns(Sorted({ts.table_label : ts \in {s \in Range(st.table_sessions) : ~s.closed}}), st)

SQLAlchemyStorage_table_exists(st, table_id) ==
    IF Cardinality(OpenSessions(st, table_id)) > 1 THEN Raises("MultipleResultsFound", st)
    ELSE Returns(OpenSessions(st, table_id) # {}, st)

\* one Order row and one OrderItem row per call; Order.created_at is the
\* insertion time, the order's own created_at is not stored
SQLAlchemyStorage_add_order(st, table_id, order, utcnow) ==
    LET ts == _get_or_create_table_session(st, table_id)
        db_order == [id |-> NextRowId(st.orders), table_session_id |-> ts.ret,
                     created_at |-> utcnow]
        order_item == [id |-> NextRowId(st.order_items), order_id |-> db_order.id,
                       text |-> order.text, category |-> order.category,
                       status |-> order.status]
    IN IF ts.raised # "None" THEN ts
       ELSE Returns("None", [ts.st EXCEPT !.orders = Append(@, db_order),
                                          !.order_items = Append(@, order_item),
                                          !._uuid_to_db_id = Put(@, order.id, order_item.id)])

\* the OrderItem rows of the open sessions of a table, order by order
ItemsOfTable(st, table_id) ==
    SelectSeq(st.order_items,
              LAMBDA item : \E o \in Range(st.orders) :
                               /\ o.id = item.order_id
                               /\ o.table_session_id \in OpenSessions(st, table_id))

OrderOf(st, item) == CHOOSE o \in Range(st.orders) : o.id = item.order_id

\* the uuids mapped to a db id, and the uuid the scan of the map finds
UuidsOf(st, db_id) == {u \in DOMAIN st._uuid_to_db_id : st._uuid_to_db_id[u] = db_id}

\* an item without a uuid gets a fresh one (uuid4) that is remembered;
\* uuids is the sequence of fresh uuids the call may draw
RECURSIVE AssignUuids(_, _, _)
AssignUuids(map, items, uuids) ==
    IF items = <<>> THEN map
    ELSE IF \E u \in DOMAIN map : map[u] = Head(items).id
    THEN AssignUuids(map, Tail(items), uuids)
    ELSE AssignUuids(Put(map, Head(uuids), Head(items).id), Tail(items), Tail(uuids))

SQLAlchemyStorage_get_orders(st, table_id, uuids) ==
    LET items == ItemsOfTable(st, table_id)
        map == AssignUuids(st._uuid_to_db_id, items, uuids)
        after == [st EXCEPT !._uuid_to_db_id = map]
    IN Returns([i \in 1..Len(items) |->
                  [id |-> CHOOSE u \in UuidsOf(after, items[i].id) : TRUE,
                   table |-> table_id, text |-> items[i].text,
                   category |-> items[i].category, status |-> items[i].status,
                   created_at |-> OrderOf(st, items[i]).created_at]],
               after)

\* the three lookups go through the uuid map alone: table_id is not used
SQLAlchemyStorage_update_order_status(st, table_id, item_id, status) ==
    LET i == IF item_id \in DOMAIN st._uuid_to_db_id
             THEN FirstIndex(st.order_items, LAMBDA it : it.id = st._uuid_to_db_id[item_id])
             ELSE 0
    IN IF i = 0 THEN Returns(FALSE, st)
       ELSE Returns(TRUE, [st EXCEPT !.order_items[i].status = status])

SQLAlchemyStorage_delete_order(st, table_id, item_id) ==
    LET i == IF item_id \in DOMAIN st._uuid_to_db_id
             THEN FirstIndex(st.order_items, LAMBDA it : it.id = st._uuid_to_db_id[item_id])
             ELSE 0
    IN IF i = 0 THEN Returns(FALSE, st)
       ELSE Returns(TRUE, [st EXCEPT !.order_items = RemoveAt(@, i),
                                     !._uuid_to_db_id = Del(@, item_id)])

SQLAlchemyStorage_get_order_by_id(st, table_id, item_id) ==
    LET i == IF item_id \in DOMAIN st._uuid_to_db_id
             THEN FirstIndex(st.order_items, LAMBDA it : it.id = st._uuid_to_db_id[item_id])
             ELSE 0
    IN Returns(IF i = 0 THEN <<>>
               ELSE <<[id |-> item_id, table |-> table_id, text |-> st.order_items[i].text,
                       category |-> st.order_items[i].category,
                       status |-> st.order_items[i].status,
                       created_at |-> OrderOf(st, st.order_items[i]).created_at]>>,
               st)

SQLAlchemyStorage_purge_done_orders(st, table_id, older_than_seconds, utcnow) ==
    LET cutoff == utcnow - older_than_seconds
        Purged(item) == /\ \E j \in 1..Len(ItemsOfTable(st, table_id)) :
                              ItemsOfTable(st, table_id)[j] = item
                        /\ item.status \in {"done", "cancelled"}
                        /\ older_than_seconds > 0 => OrderOf(st, item).created_at < cutoff
        kept == SelectSeq(st.order_items, LAMBDA item : ~Purged(item))
        gone == {item.id : item \in {it \in Range(st.order_items) : Purged(it)}}
        map == [u \in {u \in DOMAIN st._uuid_to_db_id : st._uuid_to_db_id[u] \notin gone}
                  |-> st._uuid_to_db_id[u]]
    IN IF Cardinality(OpenSessions(st, table_id)) = 0 THEN Returns(0, st)
       ELSE Returns(Len(st.order_items) - Len(kept),
                    [st EXCEPT !.order_items = kept, !._uuid_to_db_id = map])

(*********************** the Storage interface ****************************)
get_table(st, table_id) ==
    CASE st.impl = "inmemory" -> InMemoryStorage_get_table(st, table_id)
      [] st.impl = "sqlite" -> SQLiteStorage_get_table(st, table_id)
      [] st.impl = "sqlalchemy" -> SQLAlchemyStorage_get_table(st, table_id)

set_table(st, table_id, data) ==
    CASE st.impl = "inmemory" -> InMemoryStorage_set_table(st, table_id, data)
      [] st.impl = "sqlite" -> SQLiteStorage_set_table(st, table_id, data)
      [] st.impl = "sqlalchemy" -> SQLAlchemyStorage_set_table(st, table_id, data)

delete_table(st, table_id) ==
    CASE st.impl = "inmemory" -> InMemoryStorage_delete_table(st, table_id)
      [] st.impl = "sqlite" -> SQLiteStorage_delete_table(st, table_id)
      [] st.impl = "sqlalchemy" -> SQLAlchemyStorage_delete_table(st, table_id)

list_tables(st) ==
    CASE st.impl = "inmemory" -> InMemoryStorage_list_tables(st)
      [] st.impl = "sqlite" -> SQLiteStorage_list_tables(st)
      [] st.impl = "sqlalchemy" -> SQLAlchemyStorage_list_tables(st)

table_exists(st, table_id) ==
    CASE st.impl = "inmemory" -> InMemoryStorage_table_exists(st, table_id)
      [] st.impl = "sqlite" -> SQLiteStorage_table_exists(st, table_id)
      [] st.impl = "sqlalchemy" -> SQLAlchemyStorage_table_exists(st, table_id)

add_order(st, table_id, order, utcnow) ==
    CASE st.impl = "inmemory" -> InMemoryStorage_add_order(st, table_id, order)
      [] st.impl = "sqlite" -> SQLiteStorage_add_order(st, table_id, order)
      [] st.impl = "sqlalchemy" -> SQLAlchemyStorage_add_order(st, table_id, order, utcnow)

get_orders(st, table_id, uuids) ==
    CASE st.impl = "inmemory" -> InMemoryStorage_get_orders(st, table_id)
      [] st.impl = "sqlite" -> SQLiteStorage_get_orders(st, table_id)
      [] st.impl = "sqlalchemy" -> SQLAlchemyStorage_get_orders(st, table_id, uuids)

update_order_status(st, table_id, item_id, status) ==
    CASE st.impl = "inmemory" -> InMemoryStorage_update_order_status(st, table_id, item_id, status)
      [] st.impl = "sqlite" -> SQLiteStorage_update_order_status(st, table_id, item_id, status)
      [] st.impl = "sqlalchemy" ->
            SQLAlchemyStorage_update_order_status(st, table_id, item_id, status)

delete_order(st, table_id, item_id) ==
    CASE st.impl = "inmemory" -> InMemoryStorage_delete_order(st, table_id, item_id)
      [] st.impl = "sqlite" -> SQLiteStorage_delete_order(st, table_id, item_id)
      [] st.impl = "sqlalchemy" -> SQLAlchemyStorage_delete_order(st, table_id, item_id)

get_order_by_id(st, table_id, item_id) ==
    CASE st.impl = "inmemory" -> InMemoryStorage_get_order_by_id(st, table_id, item_id)
      [] st.impl = "sqlite" -> SQLiteStorage_get_order_by_id(st, table_id, item_id)
      [] st.impl = "sqlalchemy" -> SQLAlchemyStorage_get_order_by_id(st, table_id, item_id)

purge_done_orders(st, table_id, older_than_seconds, utcnow) ==
    CASE st.impl = "inmemory" ->
            InMemoryStorage_purge_done_orders(st, table_id, older_than_seconds, utcnow)
      [] st.impl = "sqlite" ->
            SQLiteStorage_purge_done_orders(st, table_id, older_than_seconds, utcnow)
      [] st.impl = "sqlalchemy" ->
            SQLAlchemyStorage_purge_done_orders(st, table_id, older_than_seconds, utcnow)

(***************************************************************************)
(* The storage object under a sequence of calls.  last records the latest  *)
(* call: its name and arguments and what it returned or raised.            *)
(***************************************************************************)
MaxItems == 2

MaxClock == 2

MaxSessions == 3

PurgeSeconds == {0, 1, 2}

Storages == {InMemoryStorage, SQLiteStorage, SQLAlchemyStorage}

\* the uuids a call may draw, in the order it draws them
FreshUuids == [i \in 1..(MaxItems + 1) |-> next_uuid + i - 1]

\* a table is opened (gets a TableSession) at most MaxSessions times
WithinBounds(st) == st.impl = "sqlalchemy" => Len(st.table_sessions) <= MaxSessions

Called(op, table_id, arg, r) ==
    /\ WithinBounds(r.st)
    /\ storage' = r.st
    /\ last' = [op |-> op, table |-> table_id, arg |-> arg, ret |-> r.ret,
                raised |-> r.raised]

InitStorage ==
    /\ storage \in Storages
    /\ clock = 0
    /\ next_uuid = 1
    /\ last = NoCallYet
    /\ NormIdle
    /\ LineIdle
    /\ MatchIdle
    /\ ServiceIdle
    /\ AsyncIdle
    /\ GlobalsAre(BaseGlobals)

Tick ==
    /\ clock < MaxClock
    /\ clock' = clock + 1
    /\ UNCHANGED <<storage, next_uuid, last, normVars, nlpGlobals, lineVars, matchVars, svcVars, asyncVars>>

GetTable(t) ==
    /\ Called("get_table", t, "None", get_table(storage, t))
    /\ UNCHANGED <<clock, next_uuid, normVars, nlpGlobals, lineVars, matchVars, svcVars, asyncVars>>

SetTable(t, data) ==
    /\ Called("set_table", t, data, set_table(storage, t, data))
    /\ UNCHANGED <<clock, next_uuid, normVars, nlpGlobals, lineVars, matchVars, svcVars, asyncVars>>

\* arg keeps the orders the table held when it was deleted
DeleteTable(t) ==
    /\ Called("delete_table", t, get_orders(storage, t, FreshUuids).ret, delete_table(storage, t))
    /\ UNCHANGED <<clock, next_uuid, normVars, nlpGlobals, lineVars, matchVars, svcVars, asyncVars>>

ListTables ==
    /\ Called("list_tables", 0, "None", list_tables(storage))
    /\ UNCHANGED <<clock, next_uuid, normVars, nlpGlobals, lineVars, matchVars, svcVars, asyncVars>>

TableExists(t) ==
    /\ Called("table_exists", t, "None", table_exists(storage, t))
    /\ UNCHANGED <<clock, next_uuid, normVars, nlpGlobals, lineVars, matchVars, svcVars, asyncVars>>

\* the caller draws the item id with uuid4 and stamps the item with the time
AddOrder(t, status) ==
    /\ next_uuid <= MaxItems
    /\ Called("add_order", t, next_uuid,
              add_order(storage, t, [id |-> next_uuid, table |-> t, text |-> "x",
                                     category |-> "kitchen", status |-> status,
                                     created_at |-> clock], clock))
    /\ next_uuid' = next_uuid + 1
    /\ UNCHANGED <<clock, normVars, nlpGlobals, lineVars, matchVars, svcVars, asyncVars>>

GetOrders(t) ==
    /\ Called("get_orders", t, "None", get_orders(storage, t, FreshUuids))
    /\ UNCHANGED <<clock, next_uuid, normVars, nlpGlobals, lineVars, matchVars, svcVars, asyncVars>>

UpdateOrderStatus(t, item_id, status) ==
    /\ Called("update_order_status", t, item_id, update_order_status(storage, t, item_id, status))
    /\ UNCHANGED <<clock, next_uuid, normVars, nlpGlobals, lineVars, matchVars, svcVars, asyncVars>>

DeleteOrder(t, item_id) ==
    /\ Called("delete_order", t, item_id, delete_order(storage, t, item_id))
    /\ UNCHANGED <<clock, next_uuid, normVars, nlpGlobals, lineVars, matchVars, svcVars, asyncVars>>

GetOrderById(t, item_id) ==
    /\ Called("get_order_by_id", t, item_id, get_order_by_id(storage, t, item_id))
    /\ UNCHANGED <<clock, next_uuid, normVars, nlpGlobals, lineVars, matchVars, svcVars, asyncVars>>

PurgeDoneOrders(t, older_than_seconds) ==
    /\ Called("purge_done_orders", t, older_than_seconds,
              purge_done_orders(storage, t, older_than_seconds, clock))
    /\ UNCHANGED <<clock, next_uuid, normVars, nlpGlobals, lineVars, matchVars, svcVars, asyncVars>>

\* table metadata and the tables' existence; every order is pending
NextTables ==
    \/ \E t \in Tables : GetTable(t)
    \/ \E t \in Tables : \E data \in Metas : SetTable(t, data)
    \/ \E t \in Tables : DeleteTable(t)
    \/ ListTables
    \/ \E t \in Tables : TableExists(t)
    \/ \E t \in Tables : AddOrder(t, "pending")
    \/ \E t \in Tables : GetOrders(t)

SpecTables == InitStorage /\ [][NextTables]_vars

\* the items of the tables and their statuses; the clock stands still
NextOrders ==
    \/ \E t \in Tables : \E status \in Statuses : AddOrder(t, status)
    \/ \E t \in Tables : GetOrders(t)
    \/ \E t \in Tables : \E id \in 1..MaxItems : \E status \in Statuses :
          UpdateOrderStatus(t, id, status)
    \/ \E t \in Tables : \E id \in 1..MaxItems : DeleteOrder(t, id)
    \/ \E t \in Tables : \E id \in 1..MaxItems : GetOrderById(t, id)
    \/ \E t \in Tables : PurgeDoneOrders(t, 0)

SpecOrders == InitStorage /\ [][NextOrders]_vars

\* purging by age: items are added as time passes
NextPurge ==
    \/ Tick
    \/ \E t \in Tables : \E status \in Statuses : AddOrder(t, status)
    \/ \E t \in Tables : GetOrders(t)
    \/ \E t \in Tables : \E s \in PurgeSeconds : PurgeDoneOrders(t, s)

SpecPurge == InitStorage /\ [][NextPurge]_vars

\* what the callers of the interface observe of a table
Orders(st, t) == get_orders(st, t, FreshUuids).ret

Meta(st, t) == get_table(st, t).ret

\* C25: for every Storage implementation get_table(t) returns
\* {people: None, bread: False} when t has no metadata (a new storage object,
\* a table that was just deleted), and after set_table(t, d) get_table(t)
\* returns d.
C25_GetTableReturnsWhatWasSet ==
    /\ \A st \in Storages : \A t \in Tables : Meta(st, t) = DefaultMeta
    /\ last.op = "delete_table" => Meta(storage, last.table) = DefaultMeta
    /\ \A t \in Tables : \A d \in Metas : Meta(set_table(storage, t, d).st, t) = d

\* C26: after delete_table(t) table t has no orders and default metadata,
\* table_exists(t) is false and t is not in list_tables(); the orders and
\* the metadata of every other table are what they were.
C26_DeleteTableRemovesOnlyThatTable ==
    \A t \in Tables :
       LET after == delete_table(storage, t).st
       IN /\ delete_table(storage, t).raised = "None"
          /\ Orders(after, t) = <<>>
          /\ Meta(after, t) = DefaultMeta
          /\ table_exists(after, t).ret = FALSE
          /\ t \notin Range(list_tables(after).ret)
          /\ \A other \in Tables \ {t} :
                /\ Orders(after, other) = Orders(storage, other)
                /\ Meta(after, other) = Meta(storage, other)

\* a table that held an order was deleted while the other table holds an
\* order
C26_Witness ==
    /\ last.op = "delete_table"
    /\ last.arg # <<>>
    /\ \E other \in Tables \ {last.table} : Orders(storage, other) # <<>>
    /\ Orders(storage, last.table) = <<>>

IsPending(o) == o.status = "pending"

IsDoneOrCancelled(o) == o.status \in {"done", "cancelled"}

\* C27: purge_done_orders(t) with older_than_seconds = 0 removes exactly the
\* done and the cancelled items of table t, keeps the pending items in their
\* order and returns the number of items it removed (0 for a table without
\* orders).
C27_PurgeRemovesDoneAndCancelled ==
    \A t \in Tables :
       LET before == Orders(storage, t)
           purge == purge_done_orders(storage, t, 0, clock)
           after == Orders(purge.st, t)
       IN /\ purge.raised = "None"
          /\ after = SelectSeq(before, LAMBDA o : ~IsDoneOrCancelled(o))
          /\ SelectSeq(after, IsPending) = SelectSeq(before, IsPending)
          /\ purge.ret = Len(before) - Len(after)
          /\ before = <<>> => purge.ret = 0

\* a purge removed an item and left a pending one
C27_Witness ==
    /\ last.op = "purge_done_orders"
    /\ last.arg = 0
    /\ last.ret = 1
    /\ \E o \in Range(Orders(storage, last.table)) : IsPending(o)

\* C28: purge_done_orders(t, s) with s > 0 removes only done or cancelled
\* items created more than s seconds ago: a done or cancelled item created
\* within the last s seconds, and every pending item, is kept.
C28_PurgeKeepsRecentItems ==
    \A t \in Tables : \A s \in PurgeSeconds \ {0} :
       LET before == Orders(storage, t)
           after == Orders(purge_done_orders(storage, t, s, clock).st, t)
       IN \A o \in Range(before) :
             (IsPending(o) \/ o.created_at >= clock - s) => o \in Range(after)

\* C29: item lookups are scoped to the given table: for an item id stored
\* under table t1 and another table t2, get_order_by_id(t2, id) returns None,
\* and update_order_status(t2, id, s) and delete_order(t2, id) return False
\* and change nothing.
C29_LookupsScopedToTable ==
    \A t1 \in Tables : \A t2 \in Tables \ {t1} : \A o \in Range(Orders(storage, t1)) :
       /\ get_order_by_id(storage, t2, o.id).ret = <<>>
       /\ \A status \in Statuses :
             /\ update_order_status(storage, t2, o.id, status).ret = FALSE
             /\ update_order_status(storage, t2, o.id, status).st = storage
       /\ delete_order(storage, t2, o.id).ret = FALSE
       /\ delete_order(storage, t2, o.id).st = storage

(***************************************************************************)
(* The waiter's websocket (main.station_ws): finalize_table.  The reply is *)
(* the first message sent back on the socket; an exception of the storage  *)
(* leaves the handler's loop and closes the socket without a reply.        *)
(***************************************************************************)
Reply(action, reason, pending) == [action |-> action, reason |-> reason, pending |-> pending]

\* the refresh sent after a refusal reads the orders of every table and the
\* metadata of each table that has a pending item
RECURSIVE ReadPendingItems(_, _, _)
ReadPendingItems(st, tables, uuids) ==
    IF tables = <<>> THEN st
    ELSE LET orders == get_orders(st, Head(tables), uuids)
             read == IF \E it \in Range(orders.ret) : it.status = "pending"
                     THEN get_table(orders.st, Head(tables)).st
                     ELSE orders.st
         IN ReadPendingItems(read, Tail(tables), uuids)

finalize_table(st, table_to_finalize, uuids) ==
    LET exists == table_exists(st, table_to_finalize)
        all_items == get_orders(st, table_to_finalize, uuids)
        pending_left == SelectSeq(all_items.ret, LAMBDA x : x.status = "pending")
    IN IF exists.raised # "None" THEN Raises(exists.raised, st)
       ELSE IF ~exists.ret THEN Returns(Reply("finalize_failed", "table_not_found", 0), st)
       ELSE IF pending_left # <<>>
       THEN Returns(Reply("finalize_failed", "items_pending", Len(pending_left)),
                    ReadPendingItems(all_items.st, list_tables(all_items.st).ret, uuids))
       ELSE Returns(Reply("finalized_ok", "None", 0),
                    delete_table(all_items.st, table_to_finalize).st)

FinalizeTable(t) ==
    /\ Called("finalize_table", t, "None", finalize_table(storage, t, FreshUuids))
    /\ UNCHANGED <<clock, next_uuid, normVars, nlpGlobals, lineVars, matchVars, svcVars, asyncVars>>

\* orders are submitted and marked done, the waiter sets the metadata and
\* asks to finalize
NextStation ==
    \/ \E t \in Tables : AddOrder(t, "pending")
    \/ \E t \in Tables : \E id \in 1..MaxItems : UpdateOrderStatus(t, id, "done")
    \/ \E t \in Tables : SetTable(t, [people |-> "4", bread |-> TRUE])
    \/ \E t \in Tables : FinalizeTable(t)

SpecStation == InitStorage /\ [][NextStation]_vars

\* C23: a waiter's finalize_table request for a table that has a pending item
\* is refused (finalize_failed, reason items_pending) and leaves the table's
\* orders and metadata as they were; the table is removed (finalized_ok) only
\* when it has no pending item.
C23_FinalizeRefusedWhilePending ==
    \A t \in Tables :
       LET finalize == finalize_table(storage, t, FreshUuids)
           pending == \E o \in Range(Orders(storage, t)) : IsPending(o)
       IN /\ pending =>
               /\ finalize.raised = "None"
               /\ finalize.ret.action = "finalize_failed"
               /\ finalize.ret.reason = "items_pending"
               /\ Orders(finalize.st, t) = Orders(storage, t)
               /\ Meta(finalize.st, t) = Meta(storage, t)
          /\ (finalize.raised = "None" /\ finalize.ret.action = "finalized_ok") => ~pending
          /\ Orders(finalize.st, t) # Orders(storage, t) => ~pending


(***************************************************************************)
(* POST /order/ and PUT /order/{table} (main.submit_order,                 *)
(* main.replace_table_order, db.order_utils.replace_table_orders).  The    *)
(* menu has no hidden item and no correction is stored.                    *)
(***************************************************************************)
\* payload.people, payload.bread
PayloadMeta == [people |-> "2", bread |-> TRUE]

_make_item(line_text, table, category, uuid, utcnow) ==
    [id |-> uuid, table |-> table, text |-> Strip(line_text), category |-> category,
     status |-> "pending", created_at |-> utcnow]

RECURSIVE AddItems(_, _, _, _, _)
AddItems(st, table, classified, uuids, utcnow) ==
    IF classified = <<>> THEN st
    ELSE AddItems(add_order(st, table,
                            _make_item(Head(classified).text, table, Head(classified).category,
                                       Head(uuids), utcnow), utcnow).st,
                  table, Tail(classified), Tail(uuids), utcnow)

submit_order(st, table, order_text, classify, uuids, utcnow) ==
    LET meta == set_table(st, table, PayloadMeta)
        classified == classify[order_text]
    IN IF meta.raised # "None" THEN meta
       ELSE IF classified.exc # "none" THEN Raises(classified.exc, meta.st)
       ELSE IF Unclassified(classified.results) # <<>> THEN Raises("HTTPException", meta.st)
       ELSE Returns([status |-> "ok", created |-> Len(classified.results)],
                    get_table(AddItems(meta.st, table, classified.results, uuids, utcnow),
                              table).st)

\* existing_records: the pending items with their normalized text
ExistingRecords(existing_pending) ==
    [i \in 1..Len(existing_pending) |->
       [item |-> existing_pending[i], norm |-> _normalize_text_for_match(existing_pending[i].text),
        category |-> existing_pending[i].category, used |-> FALSE]]

\* the loop over the new lines: each line takes the first record not yet
\* used with its normalized text and category (match_idx, 0 for none)
RECURSIVE MatchEntries(_, _, _)
MatchEntries(existing_records, classified, matches) ==
    IF classified = <<>> THEN [existing_records |-> existing_records, matches |-> matches]
    ELSE LET entry == Head(classified)
             new_text == Strip(entry.text)
             new_norm == _normalize_text_for_match(new_text)
             match_idx == FirstIndex(existing_records,
                                     LAMBDA rec : /\ ~rec.used
                                                  /\ rec.norm = new_norm
                                                  /\ rec.category = entry.category)
         IN MatchEntries(IF match_idx = 0 THEN existing_records
                         ELSE [existing_records EXCEPT ![match_idx].used = TRUE],
                         Tail(classified),
                         Append(matches, [new_text |-> new_text, new_cat |-> entry.category,
                                          match_idx |-> match_idx]))

\* existing_item["text"] = new_text changes the stored item only where
\* get_orders hands out the stored dicts themselves
SetItemText(st, table, item_id, new_text) ==
    IF st.impl = "inmemory"
    THEN [st EXCEPT !._orders_by_table[table] =
             [i \in 1..Len(@) |-> IF @[i].id = item_id THEN [@[i] EXCEPT !.text = new_text]
                                  ELSE @[i]]]
    ELSE st

\* main.py 790-852: a matched line updates its item, an unmatched one adds one
RECURSIVE ApplyMatches(_, _, _, _, _, _)
ApplyMatches(st, table, existing_records, matches, uuids, utcnow) ==
    IF matches = <<>> THEN st
    ELSE LET m == Head(matches)
             existing_item == existing_records[m.match_idx].item
         IN IF m.match_idx = 0
            THEN ApplyMatches(add_order(st, table,
                                        _make_item(m.new_text, table, m.new_cat, Head(uuids),
                                                   utcnow), utcnow).st,
                              table, existing_records, Tail(matches), Tail(uuids), utcnow)
            ELSE ApplyMatches(IF existing_item.text # m.new_text
                              THEN SetItemText(st, table, existing_item.id, m.new_text)
                              ELSE st,
                              table, existing_records, Tail(matches), uuids, utcnow)

\* main.py 854-864: the records no line used are cancelled
RECURSIVE CancelUnmatched(_, _, _)
CancelUnmatched(st, table, existing_records) ==
    IF existing_records = <<>> THEN st
    ELSE CancelUnmatched(IF Head(existing_records).used THEN st
                         ELSE update_order_status(st, table, Head(existing_records).item.id,
                                                  "cancelled").st,
                         table, Tail(existing_records))

\* order_utils.list_orders_for_table(pending_only=True): the rows, with
\* their db ids
list_orders_for_table(st, table_label) ==
    LET items == SelectSeq(ItemsOfTable(st, table_label), LAMBDA item : item.status = "pending")
    IN [i \in 1..Len(items) |->
          [id |-> items[i].id, table |-> table_label, text |-> items[i].text,
           category |-> items[i].category, status |-> items[i].status,
           created_at |-> OrderOf(st, items[i]).created_at]]

\* order_utils.create_order_from_payload with one entry
create_order_from_payload(st, table_label, new_text, new_cat, utcnow) ==
    LET ts == _get_or_create_table_session(st, table_label)
        order == [id |-> NextRowId(st.orders), table_session_id |-> ts.ret,
                  created_at |-> utcnow]
        order_item == [id |-> NextRowId(st.order_items), order_id |-> order.id,
                       text |-> new_text, category |-> new_cat, status |-> "pending"]
    IN [ts.st EXCEPT !.orders = Append(@, order), !.order_items = Append(@, order_item)]

SetRow(st, db_id, field, value) ==
    [st EXCEPT !.order_items =
        [i \in 1..Len(@) |-> IF @[i].id = db_id THEN [@[i] EXCEPT ![field] = value] ELSE @[i]]]

\* order_utils.py 340-386
RECURSIVE ApplyMatchesToRows(_, _, _, _, _)
ApplyMatchesToRows(st, table_label, existing_records, matches, utcnow) ==
    IF matches = <<>> THEN st
    ELSE LET m == Head(matches)
             existing_item == existing_records[m.match_idx].item
         IN IF m.match_idx = 0
            THEN ApplyMatchesToRows(create_order_from_payload(st, table_label, m.new_text,
                                                              m.new_cat, utcnow),
                                    table_label, existing_records, Tail(matches), utcnow)
            ELSE ApplyMatchesToRows(IF existing_item.text # m.new_text
                                    THEN SetRow(SetRow(st, existing_item.id, "text", m.new_text),
                                                existing_item.id, "category", m.new_cat)
                                    ELSE st,
                                    table_label, existing_records, Tail(matches), utcnow)

\* order_utils.py 388-396
RECURSIVE CancelUnmatchedRows(_, _)
CancelUnmatchedRows(st, existing_records) ==
    IF existing_records = <<>> THEN st
    ELSE CancelUnmatchedRows(IF Head(existing_records).used THEN st
                             ELSE SetRow(st, Head(existing_records).item.id, "status",
                                         "cancelled"),
                             Tail(existing_records))

\* the result carries the counts of new, kept, updated and cancelled items
Replaced(st, existing_records, matched) ==
    [st |-> st,
     new |-> Len(SelectSeq(matched.matches, LAMBDA m : m.match_idx = 0)),
     kept |-> Len(SelectSeq(matched.matches,
                 LAMBDA m : m.match_idx # 0
                            /\ existing_records[m.match_idx].item.text = m.new_text)),
     cancelled |-> Len(SelectSeq(matched.existing_records, LAMBDA rec : ~rec.used))]

replace_table_orders(st, table_label, new_classified_items, utcnow) ==
    LET existing_records == ExistingRecords(list_orders_for_table(st, table_label))
        matched == MatchEntries(existing_records, new_classified_items, <<>>)
    IN Replaced(CancelUnmatchedRows(ApplyMatchesToRows(st, table_label, existing_records,
                                                       matched.matches, utcnow),
                                    matched.existing_records),
                existing_records, matched)

\* a replacement that leaves the items no line used pending
ReplaceWithoutCancelling(st, table, classified, uuids, utcnow) ==
    LET all_items == get_orders(st, table, uuids)
        existing_records ==
            ExistingRecords(SelectSeq(all_items.ret, LAMBDA it : it.status = "pending"))
        matched == MatchEntries(existing_records, classified, <<>>)
    IN Replaced(ApplyMatches(all_items.st, table, existing_records, matched.matches, uuids,
                             utcnow),
                existing_records, matched)

\* main.py 790-864, the storages other than SQLAlchemyStorage
ReplaceInStorage(st, table, classified, uuids, utcnow) ==
    LET all_items == get_orders(st, table, uuids)
        existing_records ==
            ExistingRecords(SelectSeq(all_items.ret, LAMBDA it : it.status = "pending"))
        matched == MatchEntries(existing_records, classified, <<>>)
    IN Replaced(CancelUnmatched(ApplyMatches(all_items.st, table, existing_records,
                                             matched.matches, uuids, utcnow),
                                table, matched.existing_records),
                existing_records, matched)

replace_table_order(st, table, order_text, classify, uuids, utcnow) ==
    LET meta == set_table(st, table, PayloadMeta)
        read == get_table(meta.st, table)
        classified == classify[order_text]
        replaced == IF st.impl = "sqlalchemy"
                    THEN replace_table_orders(read.st, table, classified.results, utcnow)
                    ELSE ReplaceInStorage(read.st, table, classified.results, uuids, utcnow)
    IN IF meta.raised # "None" THEN meta
       ELSE IF classified.exc # "none" THEN Raises(classified.exc, read.st)
       ELSE IF Unclassified(classified.results) # <<>> THEN Raises("HTTPException", read.st)
       ELSE Returns([status |-> "ok", replaced_count |-> replaced.new,
                     kept_count |-> replaced.kept, cancelled_count |-> replaced.cancelled],
                    get_orders(get_table(replaced.st, table).st, table, uuids).st)

\* the item ids a storage object knows
ItemIds(st) ==
    CASE st.impl = "inmemory" ->
            UNION {{o.id : o \in Range(st._orders_by_table[t])} : t \in DOMAIN st._orders_by_table}
      [] st.impl = "sqlite" -> {row.item_id : row \in Range(st.orders)}
      [] st.impl = "sqlalchemy" -> DOMAIN st._uuid_to_db_id

\* a request that draws uuids moves uuid4() on by as many
Requested(op, table_id, arg, r) ==
    /\ Called(op, table_id, arg, r)
    /\ next_uuid' = next_uuid + Cardinality(ItemIds(r.st) \ ItemIds(storage))
    /\ next_uuid' <= MaxItems + 1
    /\ UNCHANGED <<clock, normVars, nlpGlobals, lineVars, matchVars, svcVars, asyncVars>>

Mythos2 == D(<<"2">>) \o SP \o G(<<"m", "y", "q", "o", "sf">>)

Mythos3 == D(<<"3">>) \o SP \o Ac(Up(G(<<"m", "y", "q", "o", "sf">>), 1), 2)

Paidakia1 == D(<<"1">>) \o SP \o G(<<"p", "a", "i", "d", "a", "k", "i", "a">>)

\* orders of one and of two lines, one of them with a line no menu item
\* matches
OrderTexts ==
    {Mythos2, Mythos3 \o NL \o Paidakia1, Mythos2 \o NL \o Mythos2, Mythos2 \o NL \o G(<<"x">>)}

\* nlp.classify_order on the menu of the module, tabulated over the orders
ClassifyOrder ==
    [order_text \in OrderTexts |->
        classify_order_with_rules(ImportModule(MenuSpec), order_text, <<>>)]

SubmitOrder(t, order_text, classify) ==
    Requested("submit_order", t, order_text,
              submit_order(storage, t, order_text, classify, FreshUuids, clock))

MarkDone(t, item_id) ==
    /\ Called("update_order_status", t, item_id, update_order_status(storage, t, item_id, "done"))
    /\ UNCHANGED <<clock, next_uuid, normVars, nlpGlobals, lineVars, matchVars, svcVars, asyncVars>>

ReplaceTableOrder(t, order_text, classify) ==
    Requested("replace_table_order", t, order_text,
              replace_table_order(storage, t, order_text, classify, FreshUuids, clock))

InitReplace ==
    /\ storage \in Storages
    /\ clock = 0
    /\ next_uuid = 1
    /\ last = NoCallYet
    /\ NormIdle
    /\ LineIdle
    /\ MatchIdle
    /\ ServiceIdle
    /\ AsyncIdle
    /\ GlobalsAre(ImportModule(MenuSpec))

\* both endpoints hand the order text to the same classifier
NextReplace ==
    \/ \E t \in Tables : \E order_text \in OrderTexts : \E classify \in {ClassifyOrder} :
          \/ SubmitOrder(t, order_text, classify)
          \/ ReplaceTableOrder(t, order_text, classify)
    \/ \E t \in Tables : \E id \in 1..MaxItems : MarkDone(t, id)

SpecReplace == InitReplace /\ [][NextReplace]_vars


\* what the matching compares: the normalized text and the category
MatchKey(text, category) == <<_normalize_text_for_match(text), category>>

\* how many elements of a sequence satisfy Test
Count(s, Test(_)) == Len(SelectSeq(s, Test))

\* C24: PUT /order/{table}: every previously pending item of the table is
\* either reused by exactly one new line with equal normalized text and equal
\* category (it stays pending under the same id) or is marked cancelled, and
\* every new line that reuses no existing item creates exactly one new pending
\* item, so that afterwards the table has exactly one pending item per line of
\* the new order.
C24_OnePendingItemPerLine ==
    \A t \in Tables : \A order_text \in OrderTexts :
       LET before == Orders(storage, t)
           request == replace_table_order(storage, t, order_text, ClassifyOrder, FreshUuids,
                                          clock)
           after == Orders(request.st, t)
           lines == ClassifyOrder[order_text].results
           was_pending == SelectSeq(before, IsPending)
           ids_before == {o.id : o \in Range(before)}
           reused == SelectSeq(after, LAMBDA o : IsPending(o) /\ o.id \in ids_before)
           created == SelectSeq(after, LAMBDA o : IsPending(o) /\ o.id \notin ids_before)
           keys == {MatchKey(Strip(ln.text), ln.category) : ln \in Range(lines)}
                      \cup {MatchKey(o.text, o.category) : o \in Range(was_pending)}
           LinesOf(k) == Count(lines, LAMBDA ln : MatchKey(Strip(ln.text), ln.category) = k)
           PendingOf(k) == Count(was_pending, LAMBDA o : MatchKey(o.text, o.category) = k)
       IN request.raised = "None" =>
            /\ \A o \in Range(was_pending) :
                  \E o2 \in Range(after) :
                     /\ o2.id = o.id
                     /\ o2.status \in {"pending", "cancelled"}
                     /\ o2.status = "pending" =>
                           MatchKey(o2.text, o2.category) = MatchKey(o.text, o.category)
            /\ \A o \in Range(reused) : \E o1 \in Range(was_pending) : o1.id = o.id
            /\ \A k \in keys :
                  /\ Count(reused, LAMBDA o : MatchKey(o.text, o.category) = k)
                        = Min(PendingOf(k), LinesOf(k))
                  /\ Count(created, LAMBDA o : MatchKey(o.text, o.category) = k)
                        = LinesOf(k) - Min(PendingOf(k), LinesOf(k))
            /\ Count(after, IsPending) = Len(lines)

\* a replacement reused an item for one line and created an item for another
C24_Witness ==
    /\ last.op = "replace_table_order"
    /\ last.raised = "None"
    /\ Len(ClassifyOrder[last.arg].results) = 2
    /\ last.ret.replaced_count = 1
    /\ last.ret.cancelled_count = 0
    /\ Count(Orders(storage, last.table), IsPending) = Len(ClassifyOrder[last.arg].results)


(***************************************************************************)
(* scripts.seed_menu.seed_menu and app.db.menu_utils, on a database        *)
(* session with the tables menu_versions and menu_items.                   *)
(***************************************************************************)
\* the session of an empty database
EmptySession == [impl |-> "session", menu_versions |-> <<>>, menu_items |-> <<>>]

\* select(MenuVersion).order_by(created_at.desc()).limit(1): a row no other
\* row is newer than; which one of several rows of the same created_at is
\* not determined
LatestVersions(db) ==
    IF db.menu_versions = <<>> THEN {<<>>}
    ELSE {<<v>> : v \in {v \in Range(db.menu_versions) :
                            \A w \in Range(db.menu_versions) : w.created_at <= v.created_at}}

\* a stored version of any age with the same JSON counts as existing
menu_version_exists_any(db, menu_dict, latest) ==
    IF \E v \in Range(db.menu_versions) : v.json_blob = menu_dict
    THEN <<CHOOSE v \in Range(db.menu_versions) : v.json_blob = menu_dict>>
    ELSE <<>>

\* latest is the row the query returned
menu_version_exists(db, menu_dict, latest) ==
    IF latest # <<>> /\ latest[1].json_blob = menu_dict THEN latest ELSE <<>>

create_menu_version(db, menu_dict, utcnow) ==
    LET version == [id |-> NextRowId(db.menu_versions), created_at |-> utcnow,
                    json_blob |-> menu_dict]
    IN [version |-> version, st |-> [db EXCEPT !.menu_versions = Append(@, version)]]

\* name.ilike(pattern) for a pattern without % and _: equal up to the case
\* of the Latin letters
ILike(name, pattern) ==
    /\ Len(name) = Len(pattern)
    /\ \A i \in 1..Len(name) :
          \/ name[i] = pattern[i]
          \/ /\ name[i].k = "lat"
             /\ [name[i] EXCEPT !.up = FALSE] = [pattern[i] EXCEPT !.up = FALSE]

\* scalar_one_or_none() of the rows: the row, none, or MultipleResultsFound
ScalarOneOrNone(rows) ==
    IF Len(rows) > 1 THEN [raised |-> "MultipleResultsFound", row |-> <<>>]
    ELSE [raised |-> "None", row |-> rows]

ByExternalId(db, external_id) ==
    IF external_id = "None" THEN [raised |-> "None", row |-> <<>>]
    ELSE ScalarOneOrNone(SelectSeq(db.menu_items, LAMBDA row : row.external_id = external_id))

upsert_menu_item(db, item_dict, menu_version_id) ==
    LET by_id == ByExternalId(db, item_dict.id)
        by_name == ScalarOneOrNone(SelectSeq(db.menu_items,
                        LAMBDA row : /\ row.menu_version_id = menu_version_id
                                     /\ ILike(row.name, item_dict.name)))
        existing == IF by_id.row # <<>> THEN by_id.row ELSE by_name.row
        new_item == [id |-> NextRowId(db.menu_items), menu_version_id |-> menu_version_id,
                     external_id |-> item_dict.id, name |-> item_dict.name,
                     price |-> item_dict.price]
    IN IF by_id.raised # "None" THEN Raises(by_id.raised, db)
       ELSE IF by_id.row = <<>> /\ by_name.raised # "None" THEN Raises(by_name.raised, db)
       ELSE IF existing # <<>>
       THEN Returns(existing[1].id,
                    [db EXCEPT !.menu_items =
                        [i \in 1..Len(@) |->
                           IF @[i].id = existing[1].id
                           THEN [@[i] EXCEPT !.menu_version_id = menu_version_id,
                                             !.name = item_dict.name,
                                             !.price = item_dict.price]
                           ELSE @[i]]])
       ELSE Returns(new_item.id, [db EXCEPT !.menu_items = Append(@, new_item)])

\* the items of the sections that are lists, in the order of the loops
RECURSIVE SectionItems(_)
SectionItems(sections) ==
    IF sections = <<>> THEN <<>>
    ELSE (IF Head(sections).is_list THEN Head(sections).items ELSE <<>>)
            \o SectionItems(Tail(sections))

\* seed_menu.py 112-144: one turn of the loop per item
RECURSIVE SeedItems(_, _, _, _)
SeedItems(db, items, version_id, stats) ==
    IF items = <<>> THEN Returns(stats, db)
    ELSE LET item_dict == Head(items)
             existing == ByExternalId(db, item_dict.id)
             menu_item == upsert_menu_item(db, item_dict, version_id)
         IN IF item_dict.kind # "dict" THEN Raises("AttributeError", db)
            ELSE IF existing.raised # "None" THEN Raises(existing.raised, db)
            ELSE IF menu_item.raised # "None" THEN menu_item
            ELSE SeedItems(menu_item.st, Tail(items), version_id,
                           IF existing.row = <<>>
                           THEN [stats EXCEPT !.items_created = @ + 1]
                           ELSE [stats EXCEPT !.items_updated = @ + 1])

\* the callers drop the transaction of a call that raises (seed_menu.py
\* 260-263, main.py 146-147, menu_router.py 233-235)
seed_menu(db, menu_dict, force, latest, utcnow) ==
    LET stats == [created_version |-> FALSE, version_id |-> 0, items_created |-> 0,
                  items_updated |-> 0]
        existing_version == menu_version_exists(db, menu_dict, latest)
        created == create_menu_version(db, menu_dict, utcnow)
        seeded == SeedItems(created.st, SectionItems(menu_dict.sections), created.version.id,
                            [stats EXCEPT !.created_version = TRUE,
                                          !.version_id = created.version.id])
    IN IF ~force /\ existing_version # <<>>
       THEN Returns([stats EXCEPT !.version_id = existing_version[1].id], db)
       ELSE IF menu_dict.fmt # "dict" THEN Raises("AttributeError", db)
       ELSE IF seeded.raised # "None" THEN Raises(seeded.raised, db)
       ELSE seeded

\* the menus seeded: three that load and one with an item that is a string
SeedMenus == {MenuSpec, MenuDup, MenuRaki, MenuWine}

\* the versions the model stores
MaxVersions == 3

SeedMenu(menu_dict, force) ==
    \E latest \in LatestVersions(storage) :
       /\ Called("seed_menu", 0, [menu_dict |-> menu_dict, force |-> force],
                 seed_menu(storage, menu_dict, force, latest, clock))
       /\ Len(storage'.menu_versions) <= MaxVersions
       /\ UNCHANGED <<clock, next_uuid, normVars, nlpGlobals, lineVars, matchVars, svcVars, asyncVars>>

InitSeed ==
    /\ storage = EmptySession
    /\ clock = 0
    /\ next_uuid = 1
    /\ last = NoCallYet
    /\ NormIdle
    /\ LineIdle
    /\ MatchIdle
    /\ ServiceIdle
    /\ AsyncIdle
    /\ GlobalsAre(BaseGlobals)

NextSeed ==
    \/ Tick
    \/ \E menu_dict \in SeedMenus : \E force \in BOOLEAN : SeedMenu(menu_dict, force)

SpecSeed == InitSeed /\ [][NextSeed]_vars

NoWorkstations == [impl |-> "session", workstations |-> <<>>]

\* the slugs the requests carry; the slug of the waiter station is never a
\* category
Slugs == {"future", "grill", "kitchen", "waiter"}

\* the names the requests carry, in the order ORDER BY name gives them
WorkstationNames == <<"Future", "Grill", "Kitchen">>

NameRank(name) == CHOOSE i \in 1..Len(WorkstationNames) : WorkstationNames[i] = name

\* the workstations the model creates
MaxWorkstations == 3

\* the rows in the order of their names (rows of one name in any one order)
RECURSIVE OrderByName(_)
OrderByName(rows) ==
    IF rows = {} THEN <<>>
    ELSE LET first == CHOOSE r \in rows :
                         \A q \in rows : /\ NameRank(r.name) <= NameRank(q.name)
                                         /\ NameRank(r.name) = NameRank(q.name) => r.id <= q.id
         IN <<first>> \o OrderByName(rows \ {first})

_get_available_categories(db) ==
    LET rows == OrderByName({ws \in Range(db.workstations) : ws.slug # "waiter"})
    IN [i \in 1..Len(rows) |-> rows[i].slug]

get_latest_menu_endpoint(db) ==
    Returns([menu |-> get_latest_menu, available_categories |-> _get_available_categories(db)],
            db)

create_workstation(db, name, slug) ==
    LET workstation == [id |-> NextRowId(db.workstations), name |-> name, slug |-> slug,
                        active |-> TRUE]
    IN IF \E ws \in Range(db.workstations) : ws.slug = slug
       THEN Raises("HTTPException 409", db)
       ELSE Returns(workstation, [db EXCEPT !.workstations = Append(@, workstation)])

\* a request that carries only the active flag
update_workstation(db, workstation_id, active) ==
    IF ~\E ws \in Range(db.workstations) : ws.id = workstation_id
    THEN Raises("HTTPException 404", db)
    ELSE LET updated == [db EXCEPT !.workstations =
                            [i \in 1..Len(@) |-> IF @[i].id = workstation_id
                                                 THEN [@[i] EXCEPT !.active = active]
                                                 ELSE @[i]]]
         IN Returns(CHOOSE ws \in Range(updated.workstations) : ws.id = workstation_id, updated)

delete_workstation(db, workstation_id) ==
    IF ~\E ws \in Range(db.workstations) : ws.id = workstation_id
    THEN Raises("HTTPException 404", db)
    ELSE Returns([status |-> "deleted", workstation_id |-> workstation_id],
                 [db EXCEPT !.workstations =
                     [i \in 1..Len(@) |-> IF @[i].id = workstation_id
                                          THEN [@[i] EXCEPT !.active = FALSE]
                                          ELSE @[i]]])

SessionCalled(op, arg, r) ==
    /\ Called(op, 0, arg, r)
    /\ UNCHANGED <<clock, next_uuid, normVars, nlpGlobals, lineVars, matchVars, svcVars, asyncVars>>

CreateWorkstation(name, slug) ==
    /\ Len(storage.workstations) < MaxWorkstations
    /\ SessionCalled("create_workstation", slug, create_workstation(storage, name, slug))

UpdateWorkstation(workstation_id, active) ==
    SessionCalled("update_workstation", workstation_id,
                  update_workstation(storage, workstation_id, active))

DeleteWorkstation(workstation_id) ==
    SessionCalled("delete_workstation", workstation_id,
                  delete_workstation(storage, workstation_id))

GetLatestMenu ==
    SessionCalled("get_latest_menu_endpoint", "None", get_latest_menu_endpoint(storage))

InitWorkstations ==
    /\ storage = NoWorkstations
    /\ clock = 0
    /\ next_uuid = 1
    /\ last = NoCallYet
    /\ NormIdle
    /\ LineIdle
    /\ MatchIdle
    /\ ServiceIdle
    /\ AsyncIdle
    /\ GlobalsAre(BaseGlobals)

NextWorkstations ==
    \/ \E name \in Range(WorkstationNames) : \E slug \in Slugs : CreateWorkstation(name, slug)
    \/ \E id \in 1..MaxWorkstations : \E active \in BOOLEAN : UpdateWorkstation(id, active)
    \/ \E id \in 1..MaxWorkstations : DeleteWorkstation(id)
    \/ GetLatestMenu

SpecWorkstations == InitWorkstations /\ [][NextWorkstations]_vars

\* C31: the available_categories list returned by GET /api/menu contains the
\* slug of a workstation only while that workstation is active: after a
\* workstation is deactivated its slug no longer appears.
C31_OnlyActiveCategories ==
    \A slug \in Range(get_latest_menu_endpoint(storage).ret.available_categories) :
       \E ws \in Range(storage.workstations) : ws.slug = slug /\ ws.active


\* ------------------------------------------------------------------------
\* Units and the match (nlp.py 455-485)
\* ------------------------------------------------------------------------
\* the entry is priced by weight or by volume: "κ " + name, or a size in
\* parentheses
UnitPriced(menu_name) ==
    \/ IsKgItem(menu_name)
    \/ IndexOf(menu_name, LPAR, 1) > 0

\* an entry that matches the query text is priced by weight or by volume
HasUnitPricedEntry ==
    \E k \in 1..Len(MENU_ITEMS) :
        EntryScore(k).out = "score" /\ UnitPriced(MENU_ITEMS[k].val.name)

\* C32: a query with a weight or volume unit never loses a match because of
\* the unit: whenever the same text without a unit is matched, the query
\* with the unit is matched too, and when no weight/volume-priced entry
\* matches the text it is matched to the same portion-priced entry.
C32_UnitNeverLosesMatch ==
    (mt_pc = "matched" /\ mt_unit.some) =>
        LET plain == _find_menu_match_with_units(MENU_ITEMS, mt_item, NoneStr, mt_qty)
        IN Matched(plain) =>
              /\ Matched(mt_res[THRESHOLD])
              /\ ~HasUnitPricedEntry => mt_res[THRESHOLD].menu_id = plain.menu_id


\* ------------------------------------------------------------------------
\* Punctuation between words (nlp.py 68-77, main.py 220-223)
\* ------------------------------------------------------------------------
\* every character that is neither alphanumeric nor whitespace becomes a space
BlankNonAlnum(t) ==
    [i \in 1..Len(t) |-> IF AlnumOrSpace(t[i]) THEN t[i] ELSE Ch("sp", " ")]

\* the words of s when punctuation separates: strip the accents, lowercase,
\* blank the punctuation, collapse and trim
SeparatedWords(s) ==
    Split(Strip(CollapseSpaces(BlankNonAlnum(_strip_accents(Lower(Strip(s)))))))

\* the text main.py normalizes after taking off the notes in parentheses and
\* the leading quantity
MatchedPart(s) ==
    LET text == Strip(CollapseSpaces(ParenScan(Strip(s)).base))
    IN StripQuantityPrefix(text, MatchNumber(text))

\* C33: normalization replaces every character that is neither alphanumeric
\* nor whitespace by a space before collapsing whitespace, so the words of
\* the output are the words that punctuation and blanks separate in the
\* input: words joined only by punctuation stay separate tokens.
C33_PunctuationSeparatesWords ==
    /\ norm_pc # "start" => Split(norm_out) = SeparatedWords(norm_in)
    /\ norm_match.set => Split(norm_match.out) = SeparatedWords(MatchedPart(norm_in))


\* ------------------------------------------------------------------------
\* Reads of a table that does not exist (inmemory.py 26-28, 54-56)
\* ------------------------------------------------------------------------
\* the storage object after get_table(t) and get_orders(t)
AfterReads(st, t) == get_orders(get_table(st, t).st, t, FreshUuids).st

\* table_exists(t) returns False
Absent(st, t) ==
    LET r == table_exists(st, t) IN r.raised = "None" /\ ~r.ret

\* C39: get_table and get_orders are pure reads: called for a table that
\* has no orders and no metadata they leave table_exists(t) false and t
\* absent from list_tables(), each of them alone and one after the other.
C39_ReadsArePure ==
    \A t \in Tables :
        Absent(storage, t) =>
            \A after \in {get_table(storage, t).st,
                          get_orders(storage, t, FreshUuids).st,
                          AfterReads(storage, t)} :
                /\ Absent(after, t)
                /\ t \notin Range(list_tables(after).ret)


\* ------------------------------------------------------------------------
\* Rejected requests (main.py 585-627, 726-768)
\* ------------------------------------------------------------------------
\* two calls end the same way: the same exception, or the same value
SameOutcome(a, b) == a.raised = b.raised /\ (a.raised = "None" => a.ret = b.ret)

\* what the interface shows of table t is the same in the two storage objects
SameTable(before, after, t) ==
    /\ SameOutcome(get_orders(before, t, FreshUuids), get_orders(after, t, FreshUuids))
    /\ SameOutcome(get_table(before, t), get_table(after, t))
    /\ SameOutcome(table_exists(before, t), table_exists(after, t))

Rejected(r) == r.raised = "HTTPException"

\* C37: a POST /order/ or PUT /order/{table} rejected with 400 is
\* all-or-nothing: every table's items, metadata and existence read the
\* same after the request as before it.
C37_RejectedChangesNothing ==
    \A t \in Tables : \A order_text \in OrderTexts :
        \A r \in {submit_order(storage, t, order_text, ClassifyOrder, FreshUuids, clock),
                  replace_table_order(storage, t, order_text, ClassifyOrder, FreshUuids, clock)} :
            Rejected(r) => \A u \in Tables : SameTable(storage, r.st, u)


\* ------------------------------------------------------------------------
\* A reused item with a changed text (main.py 790-842, order_utils.py 340-376)
\* ------------------------------------------------------------------------
\* the lines of a PUT that reuse a pending item of the table under another
\* text, as [id, new_text]: id is the item's id as get_orders shows it
ReusedWithNewText(st, table, order_text) ==
    LET pending == SelectSeq(get_orders(st, table, FreshUuids).ret,
                             LAMBDA it : it.status = "pending")
        existing_records == ExistingRecords(pending)
        matches == MatchEntries(existing_records, ClassifyOrder[order_text].results, <<>>).matches
    IN { [id |-> existing_records[matches[i].match_idx].item.id, new_text |-> matches[i].new_text] :
           i \in { j \in 1..Len(matches) :
                     /\ matches[j].match_idx # 0
                     /\ existing_records[matches[j].match_idx].item.text # matches[j].new_text } }

\* C40: after a successful PUT in which a line reuses a pending item under a
\* different text, the table's orders show that item with the new text,
\* whatever the storage.
C40_ReusedItemShowsNewText ==
    \A t \in Tables : \A order_text \in OrderTexts :
        LET seen == get_orders(storage, t, FreshUuids)
            r == replace_table_order(seen.st, t, order_text, ClassifyOrder, FreshUuids, clock)
        IN (seen.raised = "None" /\ r.raised = "None") =>
              \A reused \in ReusedWithNewText(seen.st, t, order_text) :
                  \E o \in Range(get_orders(r.st, t, FreshUuids).ret) :
                      o.id = reused.id /\ o.text = reused.new_text


(***************************************************************************)
(* POST /api/orders/close (receipts_router.close_table_session)            *)
(***************************************************************************)
\* table_session is the row .first() returned; a request that raises is
\* rolled back
close_table_session(st, table_label, table_session) ==
    LET orders == SelectSeq(st.orders, LAMBDA o : o.table_session_id = table_session)
        primary_order == orders[1]
        existing_receipt == FirstIndex(st.receipts, LAMBDA r : r.order_id = primary_order.id)
        receipts == IF existing_receipt # 0 THEN st.receipts
                    ELSE Append(st.receipts, [order_id |-> primary_order.id])
    IN IF st.impl # "sqlalchemy" THEN Raises("HTTPException", st)
       ELSE IF table_session = 0 THEN Raises("HTTPException", st)
       ELSE IF orders = <<>> THEN Raises("HTTPException", st)
       ELSE Returns([status |-> "closed", session_id |-> table_session,
                     receipt_id |-> IF existing_receipt # 0 THEN existing_receipt
                                    ELSE Len(receipts)],
                    [st EXCEPT !.table_sessions[table_session].closed = TRUE,
                               !.receipts = receipts])

\* the rows .first() may return for the open sessions of the table: 0 for
\* none
FirstOpenSession(st, table_label) ==
    IF st.impl # "sqlalchemy" \/ OpenSessions(st, table_label) = {} THEN {0}
    ELSE OpenSessions(st, table_label)

CloseTableSession(t) ==
    \E table_session \in FirstOpenSession(storage, t) :
       /\ Called("close_table_session", t, table_session,
                 close_table_session(storage, t, table_session))
       /\ UNCHANGED <<clock, next_uuid, normVars, nlpGlobals, lineVars, matchVars, svcVars, asyncVars>>

\* the waiter finalizes over the websocket, the cashier closes over HTTP
NextClose ==
    \/ NextStation
    \/ \E t \in Tables : CloseTableSession(t)

SpecClose == InitStorage /\ [][NextClose]_vars

HasPending(st, t) == \E o \in Range(Orders(st, t)) : IsPending(o)

\* the table is listed and shows the items the storage under test shows
StillOpen(after, t) ==
    /\ Orders(after, t) = Orders(storage, t)
    /\ t \in Range(list_tables(after).ret)

\* C38: no table is closed or removed while it has a pending item: after a
\* finalize_table or a POST /api/orders/close for a table with a pending
\* item the table still exists and still shows its pending items.
C38_NeverClosedWhilePending ==
    \A t \in Tables :
        HasPending(storage, t) =>
            /\ StillOpen(finalize_table(storage, t, FreshUuids).st, t)
            /\ \A s \in FirstOpenSession(storage, t) :
                  StillOpen(close_table_session(storage, t, s).st, t)


(***************************************************************************)
(* The websockets of the stations (main.station_connections,               *)
(* main.broadcast_to_station, the registration and the cleanup of          *)
(* main.station_ws).  A websocket is its position in sockets, a list       *)
(* object its position in lists, a message the position of its task in     *)
(* tasks.  A coroutine runs without interruption from one await to the      *)
(* next; broadcast_to_station awaits in ws.send_json only.                  *)
(***************************************************************************)
MaxSockets == 2

MaxBroadcasts == 2

Stations == {"waiter"}

\* station_connections.get(station, []): the list object, 0 for the new
\* empty list of the default
ConnectionsGet(station) ==
    IF station \in DOMAIN station_connections THEN station_connections[station] ELSE 0

\* the websockets of a list object
Conns(list) == IF list = 0 THEN <<>> ELSE lists[list]

\* s without the first occurrence of x: list.remove(x)
RemoveFirst(s, x) ==
    LET i == FirstIndex(s, LAMBDA y : y = x)
    IN IF i = 0 THEN s ELSE SubSeq(s, 1, i - 1) \o SubSeq(s, i + 1, Len(s))

\* station_connections[station] = alive: alive is a new list object
BindAlive(station, alive) ==
    /\ lists' = Append(lists, alive)
    /\ station_connections' = Put(station_connections, station, Len(lists) + 1)

\* main.py 1007-1008: accept, then setdefault(station, []).append(websocket)
Register(station) ==
    /\ Len(sockets) < MaxSockets
    /\ sockets' = Append(sockets, [station |-> station, state |-> "open", failed |-> FALSE,
                                   received |-> {}])
    /\ IF station \in DOMAIN station_connections
       THEN /\ lists' = [lists EXCEPT ![station_connections[station]] =
                                          Append(@, Len(sockets) + 1)]
            /\ UNCHANGED station_connections
       ELSE BindAlive(station, <<Len(sockets) + 1>>)
    /\ UNCHANGED <<tasks, lock, requests, normVars, nlpGlobals, lineVars, matchVars, svcVars,
                   backVars>>

\* main.py 1163-1167: the client went away; receive_json raises
\* WebSocketDisconnect and the handler removes the websocket from the list
\* the station has now
Disconnect(ws) ==
    /\ sockets[ws].state = "open"
    /\ sockets' = [sockets EXCEPT ![ws].state = "closed"]
    /\ LET list == ConnectionsGet(sockets[ws].station)
       IN lists' = IF list = 0 THEN lists
                   ELSE [lists EXCEPT ![list] = RemoveFirst(@, ws)]
    /\ UNCHANGED <<station_connections, tasks, lock, requests, normVars, nlpGlobals, lineVars,
                   matchVars, svcVars, backVars>>

\* the task of one call: conns is the list object it iterates, i the number
\* of elements the loop has taken from it, ws the websocket of the pending
\* send_json; listed holds the websockets the station's list had when the
\* call began
Task(station, conns, listed) ==
    [station |-> station, conns |-> conns, i |-> 0, ws |-> 0, alive |-> <<>>,
     pc |-> "loop", listed |-> listed]

\* the for statement takes the next element of conns as the list is now, or
\* ends the loop: station_connections[station] = alive
Loop(task) ==
    IF task.i < Len(Conns(task.conns))
    THEN [task EXCEPT !.i = @ + 1, !.ws = Conns(task.conns)[task.i + 1], !.pc = "send_json"]
    ELSE [task EXCEPT !.pc = "done"]

\* main.py 454-457: the call begins and runs to its first send_json, or to
\* its end when conns is empty
BroadcastToStation(station) ==
    /\ Len(tasks) < MaxBroadcasts
    /\ LET conns == ConnectionsGet(station)
           task == Loop(Task(station, conns, Range(Conns(conns))))
       IN /\ tasks' = Append(tasks, task)
          /\ IF task.pc = "done" THEN BindAlive(station, task.alive)
             ELSE UNCHANGED <<lists, station_connections>>
    /\ UNCHANGED <<sockets, lock, requests, normVars, nlpGlobals, lineVars, matchVars, svcVars,
                   backVars>>

\* main.py 458-465: send_json returns (the websocket got message k and is
\* appended to alive) or raises (it is dropped), and the loop goes on; a
\* send to a websocket that is closed raises
SendJson(k, sent) ==
    /\ tasks[k].pc = "send_json"
    /\ sent => sockets[tasks[k].ws].state = "open"
    /\ sockets' = IF sent THEN [sockets EXCEPT ![tasks[k].ws].received = @ \cup {k}]
                  ELSE [sockets EXCEPT ![tasks[k].ws].failed = TRUE]
    /\ LET task == Loop(IF sent THEN [tasks[k] EXCEPT !.alive = Append(@, tasks[k].ws)]
                        ELSE tasks[k])
       IN /\ tasks' = [tasks EXCEPT ![k] = task]
          /\ IF task.pc = "done" THEN BindAlive(task.station, task.alive)
             ELSE UNCHANGED <<lists, station_connections>>
    /\ UNCHANGED <<lock, requests, normVars, nlpGlobals, lineVars, matchVars, svcVars, backVars>>

\* main.py 162: station_connections = {"waiter": []}
InitBroadcast ==
    /\ station_connections = [station \in {"waiter"} |-> 1]
    /\ lists = << <<>> >>
    /\ tasks = <<>>
    /\ sockets = <<>>
    /\ lock = "None"
    /\ requests = <<>>
    /\ NormIdle
    /\ LineIdle
    /\ MatchIdle
    /\ ServiceIdle
    /\ BackIdle
    /\ GlobalsAre(BaseGlobals)

NextBroadcast ==
    \/ \E station \in Stations : Register(station)
    \/ \E ws \in 1..Len(sockets) : Disconnect(ws)
    \/ \E station \in Stations : BroadcastToStation(station)
    \/ \E k \in 1..Len(tasks) : \E sent \in BOOLEAN : SendJson(k, sent)

SpecBroadcast == InitBroadcast /\ [][NextBroadcast]_vars

\* the websocket is registered, has not disconnected, and no send to it failed
Healthy(ws) == sockets[ws].state = "open" /\ ~sockets[ws].failed

\* C36: a websocket registered for a station, to which no send has failed
\* and which has not disconnected, is in the station's connection list and
\* has received the message of every finished broadcast to the station that
\* began when it was in the list, however the broadcasts overlap with each
\* other and with registrations.
C36_RegisteredReceivesBroadcasts ==
    \A ws \in 1..Len(sockets) :
        Healthy(ws) =>
            /\ ws \in Range(Conns(ConnectionsGet(sockets[ws].station)))
            /\ \A k \in 1..Len(tasks) :
                  (/\ tasks[k].pc = "done"
                   /\ tasks[k].station = sockets[ws].station
                   /\ ws \in tasks[k].listed) => k \in sockets[ws].received


(***************************************************************************)
(* The handlers that change an item's status: DELETE /order/{table}/{id}   *)
(* (main.cancel_item), POST /item/{id}/done (main.mark_item_done), the     *)
(* station's mark_done message (main.station_ws), POST /purge_done         *)
(* (main.purge_done).  Each body runs under main.lock.                     *)
(***************************************************************************)
\* the reads after the status change: the metadata for the broadcasts, the
\* orders, and the metadata again when no item is pending
ReadForBroadcast(st, table, uuids) ==
    LET orders == get_orders(get_table(st, table).st, table, uuids)
    IN IF \E x \in Range(orders.ret) : x.status = "pending" THEN orders.st
       ELSE get_table(orders.st, table).st

\* cancels whatever item it finds, pending or not
cancel_item_unchecked(st, table, item_id, uuids) ==
    LET item == get_order_by_id(st, table, item_id)
    IN IF item.ret = <<>> THEN Raises("HTTPException", item.st)
       ELSE Returns([status |-> "ok", cancelled |-> item_id],
                    ReadForBroadcast(update_order_status(item.st, table, item_id,
                                                         "cancelled").st,
                                     table, uuids))

\* main.py 896-922
cancel_item(st, table, item_id, uuids) ==
    LET item == get_order_by_id(st, table, item_id)
    IN IF item.ret = <<>> \/ item.ret[1].status # "pending"
       THEN Raises("HTTPException", item.st)
       ELSE Returns([status |-> "ok", cancelled |-> item_id],
                    ReadForBroadcast(update_order_status(item.st, table, item_id,
                                                         "cancelled").st,
                                     table, uuids))

\* the first of the tables in which get_order_by_id finds the item pending,
\* 0 for none
FoundTable(st, tables, item_id) ==
    LET i == FirstIndex(tables, LAMBDA table :
                 LET item == get_order_by_id(st, table, item_id).ret
                 IN item # <<>> /\ item[1].status = "pending")
    IN IF i = 0 THEN 0 ELSE tables[i]

\* main.py 925-962
mark_item_done(st, item_id, uuids) ==
    LET found_table == FoundTable(st, list_tables(st).ret, item_id)
    IN IF found_table = 0 THEN Raises("HTTPException", st)
       ELSE Returns([status |-> "ok", item |-> item_id],
                    ReadForBroadcast(get_table(update_order_status(st, found_table, item_id,
                                                                   "done").st,
                                               found_table).st,
                                     found_table, uuids))

\* main.py 1121-1155: the answer is the message sent back on the socket
mark_done(st, item_id) ==
    LET found_table == FoundTable(st, list_tables(st).ret, item_id)
    IN IF found_table = 0
       THEN Returns([error |-> "item not found or already processed"], st)
       ELSE Returns([status |-> "ok", item |-> item_id],
                    get_table(update_order_status(st, found_table, item_id, "done").st,
                              found_table).st)

\* main.py 982-988: the loop over list_tables()
RECURSIVE PurgeTables(_, _, _, _, _)
PurgeTables(st, tables, older_than_seconds, utcnow, removed) ==
    IF tables = <<>> THEN Returns([status |-> "ok", removed |-> removed], st)
    ELSE LET purged == purge_done_orders(st, Head(tables), older_than_seconds, utcnow)
         IN PurgeTables(purged.st, Tail(tables), older_than_seconds, utcnow,
                        removed + purged.ret)

purge_done(st, older_than_seconds, utcnow) ==
    PurgeTables(st, list_tables(st).ret, older_than_seconds, utcnow, 0)

Handled(op, table_id, arg, r) ==
    /\ Called(op, table_id, arg, r)
    /\ UNCHANGED <<clock, next_uuid, normVars, nlpGlobals, lineVars, matchVars, svcVars, asyncVars>>

CancelItem(t, item_id) ==
    Handled("cancel_item", t, item_id, cancel_item(storage, t, item_id, FreshUuids))

MarkItemDone(item_id) ==
    Handled("mark_item_done", 0, item_id, mark_item_done(storage, item_id, FreshUuids))

StationMarkDone(item_id) ==
    Handled("mark_done", 0, item_id, mark_done(storage, item_id))

PurgeDone ==
    Handled("purge_done", 0, 0, purge_done(storage, 0, clock))

\* every order is the one line "2 μυθος"
HandlerTexts == {Mythos2}

\* orders are submitted and replaced, items cancelled and marked done over
\* HTTP and over the websocket, done items purged and tables finalized
NextHandlers ==
    \/ \E t \in Tables : \E order_text \in HandlerTexts : \E classify \in {ClassifyOrder} :
          \/ SubmitOrder(t, order_text, classify)
          \/ ReplaceTableOrder(t, order_text, classify)
    \/ \E t \in Tables : \E id \in 1..MaxItems : CancelItem(t, id)
    \/ \E id \in 1..MaxItems : MarkItemDone(id)
    \/ \E id \in 1..MaxItems : StationMarkDone(id)
    \/ PurgeDone
    \/ \E t \in Tables : FinalizeTable(t)

SpecHandlers == InitReplace /\ [][NextHandlers]_vars

\* the status of the item the storage object keeps under the id
ItemStatus(st, id) ==
    CASE st.impl = "inmemory" ->
            LET t == CHOOSE t \in DOMAIN st._orders_by_table :
                        \E o \in Range(st._orders_by_table[t]) : o.id = id
            IN (CHOOSE o \in Range(st._orders_by_table[t]) : o.id = id).status
      [] st.impl = "sqlite" -> (CHOOSE row \in Range(st.orders) : row.item_id = id).status
      [] st.impl = "sqlalchemy" ->
            IF \E it \in Range(st.order_items) : it.id = st._uuid_to_db_id[id]
            THEN (CHOOSE it \in Range(st.order_items) : it.id = st._uuid_to_db_id[id]).status
            ELSE "deleted"

\* the item the request names is pending
AimedAtPending(st, id) == id \in ItemIds(st) /\ ItemStatus(st, id) = "pending"

\* the request was refused: 404 over HTTP, an error message on the socket
Refused(answer) ==
    \/ answer.raised = "HTTPException"
    \/ answer.raised = "None" /\ "error" \in DOMAIN answer.ret

\* C34: through submit, replace, cancel, mark-done, purge and finalize the
\* status of an item changes only from pending to done or from pending to
\* cancelled, and a cancel or mark-done that names an item which is not
\* pending or not known is refused and leaves the storage as it was.
C34_StatusOnlyLeavesPending ==
    [][/\ \A id \in ItemIds(storage) \cap ItemIds(storage') :
             ItemStatus(storage', id) # ItemStatus(storage, id) =>
                /\ ItemStatus(storage, id) = "pending"
                /\ ItemStatus(storage', id) \in {"done", "cancelled"}
       /\ (/\ last'.op \in {"cancel_item", "mark_item_done", "mark_done"}
           /\ ~AimedAtPending(storage, last'.arg)) =>
                Refused(last') /\ storage' = storage]_vars

\* a cancel of an item that was marked done before has been refused
C34_Witness ==
    /\ last.op = "cancel_item"
    /\ last.raised = "HTTPException"
    /\ last.arg \in ItemIds(storage)
    /\ ItemStatus(storage, last.arg) = "done"


(***************************************************************************)
(* Concurrent requests and main.lock.  A request arrives, runs its body    *)
(* under the lock as soon as the lock is free, and is answered.  The HTTP  *)
(* handlers do not await inside the lock; the websocket handlers await the *)
(* send_json of their answer while they hold it.                           *)
(***************************************************************************)
MaxRequests == 2

\* the handler ignores the lock
LockIgnored == TRUE

\* async with lock (main.py 901, 928, 1059, 1123) goes on when the lock is free
LockFree == lock = "None"

ItemOps == {"cancel_item", "mark_item_done", "mark_done"}

\* the body of the handler of a request
Body(st, req, uuids) ==
    CASE req.op = "cancel_item" -> cancel_item(st, req.table, req.item_id, uuids)
      [] req.op = "mark_item_done" -> mark_item_done(st, req.item_id, uuids)
      [] req.op = "mark_done" -> mark_done(st, req.item_id)
      [] req.op = "finalize_table" -> finalize_table(st, req.table, uuids)

\* the handler answers over the websocket, inside the lock
OverWebSocket(req) == req.op \in {"mark_done", "finalize_table"}

\* the handler finds the item the request names, and finds it pending
FindsPending(st, req) ==
    CASE req.op = "cancel_item" ->
            LET item == get_order_by_id(st, req.table, req.item_id).ret
            IN item # <<>> /\ item[1].status = "pending"
      [] req.op \in {"mark_item_done", "mark_done"} ->
            FoundTable(st, list_tables(st).ret, req.item_id) # 0
      [] req.op = "finalize_table" -> FALSE

Accepted(req, r) ==
    IF r.raised # "None" THEN FALSE
    ELSE IF req.op = "finalize_table" THEN r.ret.action = "finalized_ok"
    ELSE "status" \in DOMAIN r.ret

\* the request arrives; pending tells whether its item is pending now
Arrive(op, t, item_id) ==
    /\ Len(requests) < MaxRequests
    /\ LET req == [op |-> op, table |-> t, item_id |-> item_id]
       IN requests' = Append(requests,
                             [op |-> op, table |-> t, item_id |-> item_id, pc |-> "arrived",
                              answer |-> "none", pending |-> FindsPending(storage, req)])
    /\ UNCHANGED <<lock, station_connections, lists, tasks, sockets, normVars, nlpGlobals,
                   lineVars, matchVars, svcVars, backVars>>

\* the handler takes the lock and runs its body to the end (HTTP) or to the
\* send_json of its answer (websocket)
Run(r) ==
    /\ requests[r].pc = "arrived"
    /\ LockFree
    /\ LET res == Body(storage, requests[r], FreshUuids)
       IN /\ Called(requests[r].op, requests[r].table, requests[r].item_id, res)
          /\ requests' = [requests EXCEPT
                ![r].answer = IF Accepted(requests[r], res) THEN "ok" ELSE "rejected",
                ![r].pc = IF OverWebSocket(requests[r]) /\ res.raised = "None"
                          THEN "send_json" ELSE "answered"]
          /\ lock' = IF OverWebSocket(requests[r]) /\ res.raised = "None"
                      THEN "locked" ELSE "None"
    /\ UNCHANGED <<clock, next_uuid, station_connections, lists, tasks, sockets, normVars,
                   nlpGlobals, lineVars, matchVars, svcVars>>

\* send_json returns or raises, and the handler leaves the lock
Sent(r) ==
    /\ requests[r].pc = "send_json"
    /\ requests' = [requests EXCEPT ![r].pc = "answered"]
    /\ lock' = "None"
    /\ UNCHANGED <<station_connections, lists, tasks, sockets, normVars, nlpGlobals, lineVars,
                   matchVars, svcVars, backVars>>

\* POST /order/ takes the lock for its whole body
Submit(t, order_text, classify) ==
    /\ LockFree
    /\ SubmitOrder(t, order_text, classify)

\* the table the orders are taken at
Served == {1}

NextLock ==
    \/ \E t \in Served : \E classify \in {ClassifyOrder} : Submit(t, Mythos2, classify)
    \/ \E t \in Tables : \E id \in 1..MaxItems : Arrive("cancel_item", t, id)
    \/ \E op \in {"mark_item_done", "mark_done"} : \E id \in 1..MaxItems : Arrive(op, 0, id)
    \/ \E t \in Served : Arrive("finalize_table", t, 0)
    \/ \E r \in 1..Len(requests) : Run(r)
    \/ \E r \in 1..Len(requests) : Sent(r)

SpecLock == InitReplace /\ [][NextLock]_vars

\* two requests for the same item that both arrived while it was pending,
\* and whose handlers have both run
Rivals(r1, r2) ==
    /\ r1 # r2
    /\ requests[r1].op \in ItemOps
    /\ requests[r2].op \in ItemOps
    /\ requests[r1].item_id = requests[r2].item_id
    /\ requests[r1].pending
    /\ requests[r2].pending
    /\ requests[r1].answer # "none"
    /\ requests[r2].answer # "none"

\* the requests for the item of request r that were accepted
Winners(r) ==
    {w \in 1..Len(requests) : /\ requests[w].op \in ItemOps
                              /\ requests[w].item_id = requests[r].item_id
                              /\ requests[w].answer = "ok"}

====
